---- MODULE Spec2Model ----
(***************************************************************************)
(* TransactionMail: the asynchronous delivery pipeline.                    *)
(*   - EmailService.sendEmail        (API send path, idempotency, limits)  *)
(*   - SmtpRelayServer               (inbound SMTP relay)                  *)
(*   - the send-email queue (BullMQ) and EmailProcessor.process            *)
(* Tables of the database are variables; every await of a handler is a     *)
(* step of its process, so handlers interleave where the code lets them.   *)
(***************************************************************************)
EXTENDS Integers, Sequences, FiniteSets, TLC

(* ------------------------------ bounds -------------------------------- *)
\* Messages the system accepts in one run (API and SMTP together).
MaxMessages == 1
\* Calls of POST /v1/send started in one run.
MaxSends == 2
\* RCPT TO commands accepted on the connection.
MaxRcpt == 2
\* Clock ticks in one run.
MaxTicks == 2
\* RATE_LIMIT_MAX_REQUESTS of the deployment (default 100).
RateLimitMaxRequests == 1
\* WORKER_CONCURRENCY of the deployment (default 10).
WorkerConcurrency == 2

(* ----------------------- program constants ---------------------------- *)
IDEMPOTENCY_TTL_MS == 24 * 60 * 60 * 1000
\* config.rateLimit.windowMs
RateLimitWindowMs == 60000
\* One clock tick: thirteen hours, in milliseconds.
TickMs == 13 * 60 * 60 * 1000
\* config.queue.defaultJobOptions.attempts (API queue plugin)
DefaultJobAttempts == 3
\* config.retry.maxAttempts of the worker
RetryMaxAttempts == 3
\* BullMQ: attempts of a job added without the option
UnsetJobAttempts == 0
\* BullMQ: maxStalledCount of a Worker built without the option
MaxStalledCount == 1

Projects == {"pA", "pB"}
Emails == {"r1", "r2"}
IdemKeys == {"k1"}
NoKey == "none"
NoTemplate == "none"
NoProject == "none"

\* templates table: one template with content, owned by pA
Templates == {[id |-> "t1", projectId |-> "pA", hasContent |-> TRUE]}

(* ------------------------- error texts -------------------------------- *)
\* Error texts are sequences of characters, so that toLowerCase and includes
\* are computed, not assumed.
ErrTimeout == <<"C","o","n","n","e","c","t","i","o","n"," ","t","i","m","e","o","u","t">>
ErrUserUnknown == <<"5","5","0"," ","U","s","e","r"," ","U","n","k","n","o","w","n">>
ErrNotFound == <<"R","e","c","o","r","d"," ","n","o","t"," ","f","o","u","n","d">>
TransportErrors == {ErrTimeout, ErrUserUnknown}
NoError == <<>>

UpperChars == <<"A","B","C","D","E","F","G","H","I","J","K","L","M","N","O","P","Q","R","S","T","U","V","W","X","Y","Z">>
LowerChars == <<"a","b","c","d","e","f","g","h","i","j","k","l","m","n","o","p","q","r","s","t","u","v","w","x","y","z">>

toLowerCase(s) ==
    [i \in 1..Len(s) |->
        IF \E k \in 1..26 : UpperChars[k] = s[i]
        THEN LowerChars[CHOOSE k \in 1..26 : UpperChars[k] = s[i]]
        ELSE s[i]]

includes(s, sub) ==
    \E i \in 0..(Len(s) - Len(sub)) :
        \A k \in 1..Len(sub) : s[i + k] = sub[k]

hardBounceIndicators == {
     <<"r","e","c","i","p","i","e","n","t"," ","r","e","j","e","c","t","e","d">>,
     <<"u","s","e","r"," ","u","n","k","n","o","w","n">>,
     <<"m","a","i","l","b","o","x"," ","u","n","a","v","a","i","l","a","b","l","e">>,
     <<"i","n","v","a","l","i","d"," ","a","d","d","r","e","s","s">>,
     <<"n","o"," ","s","u","c","h"," ","u","s","e","r">>,
     <<"d","o","e","s"," ","n","o","t"," ","e","x","i","s","t">> }

\* Variant of isHardBounceError that compares without lowering the case.
isHardBounceError_caseSensitive(errorMessage) ==
    \E indicator \in hardBounceIndicators : includes(errorMessage, indicator)

isHardBounceError(errorMessage) ==
    LET lowerError == toLowerCase(errorMessage)
    IN  \E indicator \in hardBounceIndicators : includes(lowerError, indicator)

(* ----------------------------- state ---------------------------------- *)
VARIABLES
    messages,         \* table messages: sequence, the index is the id
    events,           \* table events: each message's rows, in creation order
    suppressions,     \* table suppressions: set of rows
    idempotencyKeys,  \* table idempotency_keys: set of rows
    jobs,             \* the send-email queue: sequence of jobs with their state
    transportLog,     \* each message's calls of transporter.sendMail, in order
    rateLimits,       \* redis sorted sets rate_limit:project:<id>
    now,              \* Date.now(), in ms
    api,              \* the running calls of POST /v1/send
    responses,        \* the responses returned by POST /v1/send, in order
    session,          \* the SMTP connection's session object
    smtpReply,        \* the relay's reply to the last command
    webhooks,         \* table webhooks: the subscriptions, by id
    webhookDeliveries,\* table webhook_deliveries: the rows each job created, in order
    webhookJobs,      \* the webhook queue: sequence of jobs with their state
    trig,             \* the running call of WebhookService.trigger and its history
    util              \* the last call of a function of the shared utilities

vars == <<messages, events, suppressions, idempotencyKeys, jobs, transportLog,
          rateLimits, now, api, responses, session, smtpReply,
          webhooks, webhookDeliveries, webhookJobs, trig, util>>

hookVars == <<webhooks, webhookDeliveries, webhookJobs, trig>>

dbVars == <<messages, events, suppressions, idempotencyKeys>>
apiVars == <<rateLimits, api, responses>>
smtpVars == <<session, smtpReply>>

(* ------------------------- database helpers --------------------------- *)
NullTime == -1
NoExternalId == << >>

\* The ids a message can get.
MessageIds == 1..(MaxMessages + MaxSends)

MessageExists(messageId) == messageId \in 1..Len(messages)

\* prisma.message.update({ where: { id }, data: { status, ...extraData } }).
\* transitions is a history field: the statuses the row was updated to, in order.
updateMessageStatus(messageId, status, extraData) ==
    [messages EXCEPT ![messageId] =
        [f \in DOMAIN @ |->
            IF f = "status" THEN status
            ELSE IF f = "transitions" THEN Append(@[f], status)
            ELSE IF f \in DOMAIN extraData THEN extraData[f]
            ELSE @[f]]]

\* prisma.event.create({ data: { messageId, type, payload } })
recordEvent(messageId, type, payload) ==
    [events EXCEPT ![messageId] = Append(@, [type |-> type, payload |-> payload])]

\* prisma.suppression.findUnique({ where: { projectId_email } })
findSuppression(projectId, email) ==
    {s \in suppressions : s.projectId = projectId /\ s.email = email}

isSuppressed(projectId, email) == findSuppression(projectId, email) # {}

\* The row that the create branch of the upsert inserts, with a fresh id.
BounceRow(projectId, email, reason) ==
    [id |-> Cardinality(suppressions) + 1,
     projectId |-> projectId, email |-> email, reason |-> "BOUNCE",
     source |-> "bounce", metadata |-> reason]

\* Variant of upsertSuppression that inserts without looking for the row.
upsertSuppression_insertOnly(projectId, email, reason) ==
    suppressions \cup {BounceRow(projectId, email, reason)}

\* prisma.suppression.upsert on (projectId, email): one statement of the
\* database, decided by the unique index suppressions_project_id_email_key.
upsertSuppression(projectId, email, reason) ==
    IF isSuppressed(projectId, email)
    THEN {IF s.projectId = projectId /\ s.email = email
          THEN [s EXCEPT !.reason = "BOUNCE", !.metadata = reason]
          ELSE s : s \in suppressions}
    ELSE suppressions \cup {BounceRow(projectId, email, reason)}

(* --------------------- the send-email queue (BullMQ) ------------------ *)
\* A job as queue.add creates it. attempts and backoff are the job's options
\* after the queue's defaultJobOptions were merged in.
NewJob(name, messageId, projectId, to, attempts, backoffDelay) ==
    [name |-> name, messageId |-> messageId, projectId |-> projectId, to |-> to,
     attempts |-> attempts, backoffDelay |-> backoffDelay,
     attemptsMade |-> 0, stalledCounter |-> 0,
     state |-> "waiting", pc |-> "none", error |-> NoError, info |-> NoExternalId]

ActiveJobs == {j \in 1..Len(jobs) : jobs[j].state = "active"}

\* The processor returned: the job is completed.
moveToCompleted(job) == [job EXCEPT !.state = "completed", !.pc = "none"]

\* The processor threw: the queue counts the attempt, and retries the job
\* (after its backoff delay) while attempts remain, else marks it failed.
moveToFailed(job) ==
    LET made == job.attemptsMade + 1
    IN  [job EXCEPT !.attemptsMade = made,
                    !.pc = "none",
                    !.state = IF made < job.attempts
                              THEN (IF job.backoffDelay > 0 THEN "delayed" ELSE "waiting")
                              ELSE "failed"]

\* A delayed job's backoff delay has elapsed.
Promote(j) ==
    /\ jobs[j].state = "delayed"
    /\ jobs' = [jobs EXCEPT ![j].state = "waiting"]
    /\ UNCHANGED <<dbVars, transportLog, now, apiVars, smtpVars, hookVars, util>>

\* A worker with a free concurrency slot takes a waiting job and calls
\* emailProcessor.process(job).
Lease(j) ==
    /\ jobs[j].state = "waiting"
    /\ Cardinality(ActiveJobs) < WorkerConcurrency
    /\ jobs' = [jobs EXCEPT ![j].state = "active", ![j].pc = "start",
                            ![j].error = NoError, ![j].info = NoExternalId]
    /\ UNCHANGED <<dbVars, transportLog, now, apiVars, smtpVars, hookVars, util>>

(* ---------------------- EmailProcessor.process ------------------------ *)
\* const attempts = job.attemptsMade + 1
attemptsOf(job) == job.attemptsMade + 1

\* job.opts.attempts || config.retry.maxAttempts
maxAttemptsOf(job) == IF job.attempts # 0 THEN job.attempts ELSE RetryMaxAttempts

\* Variant of shouldRetry that gives up one attempt early.
shouldRetry_oneEarly(job) == attemptsOf(job) + 1 < maxAttemptsOf(job)

\* const shouldRetry = attempts < (job.opts.attempts || config.retry.maxAttempts)
shouldRetry(job) == attemptsOf(job) < maxAttemptsOf(job)

AtPc(j, pc) == jobs[j].state = "active" /\ jobs[j].pc = pc

\* A statement of the try block raised: control goes to the catch block.
Raise(j, error) == jobs' = [jobs EXCEPT ![j].pc = "catch", ![j].error = error]

\* await this.updateMessageStatus(messageId, MessageStatus.PROCESSING)
ProcessStart(j) ==
    /\ AtPc(j, "start")
    /\ IF MessageExists(jobs[j].messageId)
       THEN /\ messages' = updateMessageStatus(jobs[j].messageId, "PROCESSING", << >>)
            /\ jobs' = [jobs EXCEPT ![j].pc = "send"]
       ELSE /\ Raise(j, ErrNotFound)
            /\ UNCHANGED messages
    /\ UNCHANGED <<events, suppressions, idempotencyKeys, transportLog, now, apiVars, smtpVars, hookVars, util>>

\* One call of the outbound transport for the message.
sendMail(messageId, to, accepted) ==
    [transportLog EXCEPT ![messageId] = Append(@, [to |-> to, accepted |-> accepted])]

\* const info = await this.transporter.sendMail(mailOptions): the transport
\* accepts the message, or fails with an error.
ProcessSendMail(j) ==
    /\ AtPc(j, "send")
    /\ \/ /\ transportLog' = sendMail(jobs[j].messageId, jobs[j].to, TRUE)
          /\ jobs' = [jobs EXCEPT ![j].pc = "markSent",
                                  ![j].info = <<jobs[j].messageId,
                                                Len(transportLog[jobs[j].messageId]) + 1>>]
       \/ \E error \in TransportErrors :
          /\ transportLog' = sendMail(jobs[j].messageId, jobs[j].to, FALSE)
          /\ Raise(j, error)
    /\ UNCHANGED <<dbVars, now, apiVars, smtpVars, hookVars, util>>

\* await this.updateMessageStatus(messageId, SENT, { externalId, sentAt })
ProcessMarkSent(j) ==
    /\ AtPc(j, "markSent")
    /\ IF MessageExists(jobs[j].messageId)
       THEN /\ messages' = updateMessageStatus(jobs[j].messageId, "SENT",
                               [externalId |-> jobs[j].info, sentAt |-> now])
            /\ jobs' = [jobs EXCEPT ![j].pc = "markDelivered"]
       ELSE /\ Raise(j, ErrNotFound)
            /\ UNCHANGED messages
    /\ UNCHANGED <<events, suppressions, idempotencyKeys, transportLog, now, apiVars, smtpVars, hookVars, util>>

\* Variant of ProcessMarkDelivered that leaves the status as it is.
ProcessMarkDelivered_noUpdate(j) ==
    /\ AtPc(j, "markDelivered")
    /\ jobs' = [jobs EXCEPT ![j].pc = "eventSent"]
    /\ UNCHANGED <<dbVars, transportLog, now, apiVars, smtpVars, hookVars, util>>

\* await this.updateMessageStatus(messageId, DELIVERED, { deliveredAt })
ProcessMarkDelivered(j) ==
    /\ AtPc(j, "markDelivered")
    /\ IF MessageExists(jobs[j].messageId)
       THEN /\ messages' = updateMessageStatus(jobs[j].messageId, "DELIVERED",
                               [deliveredAt |-> now])
            /\ jobs' = [jobs EXCEPT ![j].pc = "eventSent"]
       ELSE /\ Raise(j, ErrNotFound)
            /\ UNCHANGED messages
    /\ UNCHANGED <<events, suppressions, idempotencyKeys, transportLog, now, apiVars, smtpVars, hookVars, util>>

\* Variant of ProcessEventSent that writes no event.
ProcessEventSent_noEvent(j) ==
    /\ AtPc(j, "eventSent")
    /\ IF MessageExists(jobs[j].messageId)
       THEN jobs' = [jobs EXCEPT ![j].pc = "eventDelivered"]
       ELSE Raise(j, ErrNotFound)
    /\ UNCHANGED <<dbVars, transportLog, now, apiVars, smtpVars, hookVars, util>>

\* await this.recordEvent(messageId, EventType.SENT, {...})
ProcessEventSent(j) ==
    /\ AtPc(j, "eventSent")
    /\ IF MessageExists(jobs[j].messageId)
       THEN /\ events' = recordEvent(jobs[j].messageId, "SENT",
                               [providerMessageId |-> jobs[j].info])
            /\ jobs' = [jobs EXCEPT ![j].pc = "eventDelivered"]
       ELSE /\ Raise(j, ErrNotFound)
            /\ UNCHANGED events
    /\ UNCHANGED <<messages, suppressions, idempotencyKeys, transportLog, now, apiVars, smtpVars, hookVars, util>>

\* await this.recordEvent(messageId, EventType.DELIVERED, { simulated: true });
\* the try block ends and process returns.
ProcessEventDelivered(j) ==
    /\ AtPc(j, "eventDelivered")
    /\ IF MessageExists(jobs[j].messageId)
       THEN /\ events' = recordEvent(jobs[j].messageId, "DELIVERED", [simulated |-> TRUE])
            /\ jobs' = [jobs EXCEPT ![j] = moveToCompleted(@)]
       ELSE /\ Raise(j, ErrNotFound)
            /\ UNCHANGED events
    /\ UNCHANGED <<messages, suppressions, idempotencyKeys, transportLog, now, apiVars, smtpVars, hookVars, util>>

\* catch (error): the retry decision and the status update of its branch.
\* An error raised inside the catch block leaves process: the job fails.
ProcessCatch(j) ==
    /\ AtPc(j, "catch")
    /\ IF ~MessageExists(jobs[j].messageId)
       THEN /\ jobs' = [jobs EXCEPT ![j] = moveToFailed(@)]
            /\ UNCHANGED messages
       ELSE IF shouldRetry(jobs[j])
       THEN /\ messages' = updateMessageStatus(jobs[j].messageId, "RETRYING",
                               [error |-> jobs[j].error])
            /\ jobs' = [jobs EXCEPT ![j].pc = "eventRetry"]
       ELSE /\ messages' = updateMessageStatus(jobs[j].messageId, "FAILED",
                               [error |-> jobs[j].error])
            /\ jobs' = [jobs EXCEPT ![j].pc = "eventFailed"]
    /\ UNCHANGED <<events, suppressions, idempotencyKeys, transportLog, now, apiVars, smtpVars, hookVars, util>>

\* await this.recordEvent(messageId, RETRY_SCHEDULED, {...}); throw error
ProcessEventRetry(j) ==
    /\ AtPc(j, "eventRetry")
    /\ events' = IF MessageExists(jobs[j].messageId)
                 THEN recordEvent(jobs[j].messageId, "RETRY_SCHEDULED",
                          [attempt |-> attemptsOf(jobs[j]), error |-> jobs[j].error])
                 ELSE events
    /\ jobs' = [jobs EXCEPT ![j] = moveToFailed(@)]
    /\ UNCHANGED <<messages, suppressions, idempotencyKeys, transportLog, now, apiVars, smtpVars, hookVars, util>>

\* await this.recordEvent(messageId, FAILED, { error, attempts }); then the
\* hard-bounce test: process returns unless the error is a hard bounce.
ProcessEventFailed(j) ==
    /\ AtPc(j, "eventFailed")
    /\ IF ~MessageExists(jobs[j].messageId)
       THEN /\ jobs' = [jobs EXCEPT ![j] = moveToFailed(@)]
            /\ UNCHANGED events
       ELSE /\ events' = recordEvent(jobs[j].messageId, "FAILED",
                               [error |-> jobs[j].error, attempts |-> attemptsOf(jobs[j])])
            /\ jobs' = IF isHardBounceError(jobs[j].error)
                       THEN [jobs EXCEPT ![j].pc = "suppress"]
                       ELSE [jobs EXCEPT ![j] = moveToCompleted(@)]
    /\ UNCHANGED <<messages, suppressions, idempotencyKeys, transportLog, now, apiVars, smtpVars, hookVars, util>>

\* await this.addToSuppressionList(messageId, to[0].email, errorMessage)
addToSuppressionList(messageId, email, reason) ==
    IF ~MessageExists(messageId)
    THEN suppressions
    ELSE upsertSuppression(messages[messageId].projectId, email, reason)

ProcessSuppress(j) ==
    /\ AtPc(j, "suppress")
    /\ suppressions' = addToSuppressionList(jobs[j].messageId, jobs[j].to[1], jobs[j].error)
    /\ jobs' = [jobs EXCEPT ![j] = moveToCompleted(@)]
    /\ UNCHANGED <<messages, events, idempotencyKeys, transportLog, now, apiVars, smtpVars, hookVars, util>>

\* The error of a statement that the database could not run.
ErrDatabase == <<"d","a","t","a","b","a","s","e"," ","e","r","r","o","r">>

\* await this.addToSuppressionList(...) when prisma.suppression.upsert raises:
\* the call stands in the catch block outside any try, so the error leaves
\* process and the job fails.
ProcessSuppressRaises(j) ==
    /\ AtPc(j, "suppress")
    /\ MessageExists(jobs[j].messageId)
    /\ jobs' = [jobs EXCEPT ![j] = moveToFailed([@ EXCEPT !.error = ErrDatabase])]
    /\ UNCHANGED <<dbVars, transportLog, now, apiVars, smtpVars, hookVars, util>>

\* The database rejects one of the writes that follow the transport's
\* acceptance (updateMessageStatus SENT or DELIVERED, recordEvent SENT or
\* DELIVERED): the statement raises inside the try block.
ProcessWriteRaises(j) ==
    /\ jobs[j].state = "active"
    /\ jobs[j].pc \in {"markSent", "markDelivered", "eventSent", "eventDelivered"}
    /\ Raise(j, ErrDatabase)
    /\ UNCHANGED <<dbVars, transportLog, now, apiVars, smtpVars, hookVars, util>>

\* The worker holding the job's lock is lost (crash, lock not renewed): the
\* queue's stalled-job check puts the job back to waiting, once; a job that
\* stalls again is failed.
Stall(j) ==
    /\ jobs[j].state = "active"
    /\ jobs' = [jobs EXCEPT ![j].pc = "none",
                            ![j].stalledCounter = @ + 1,
                            ![j].state = IF jobs[j].stalledCounter < MaxStalledCount
                                         THEN "waiting" ELSE "failed"]
    /\ UNCHANGED <<dbVars, transportLog, now, apiVars, smtpVars, hookVars, util>>

(* ------------------------ IdempotencyService -------------------------- *)
\* `send:${projectId}`
sendScope(projectId) == <<"send", projectId>>

\* prisma.idempotencyKey.findUnique({ where: { key } })
findIdempotencyKey(key) == {r \in idempotencyKeys : r.key = key}

\* Variant of isExpired with half the TTL.
isExpired_halfTtl(record) == now > record.expiresAt - IDEMPOTENCY_TTL_MS \div 2

\* new Date() > record.expiresAt
isExpired(record) == now > record.expiresAt

\* IdempotencyService.check: the record it returns (a set of at most one), ...
check(key, scope) ==
    {r \in findIdempotencyKey(key) : ~isExpired(r) /\ r.scope = scope}

\* ... and the table after it: an expired record is deleted.
checkDeletes(key) ==
    idempotencyKeys \ {r \in findIdempotencyKey(key) : isExpired(r)}

\* IdempotencyService.store: prisma.idempotencyKey.create throws on the
\* unique index idempotency_keys_key_key when a row with the key exists.
storeThrows(key) == findIdempotencyKey(key) # {}

store(key, scope, response) ==
    idempotencyKeys \cup
        {[key |-> key, scope |-> scope, response |-> response,
          expiresAt |-> now + IDEMPOTENCY_TTL_MS]}

(* ---------------------------- RateLimiter ----------------------------- *)
\* zremrangebyscore(redisKey, 0, windowStart): the entries that remain
withinWindow(scores) ==
    LET windowStart == now - RateLimitWindowMs
    IN  SelectSeq(scores, LAMBDA t : t > windowStart)

\* zcard after the removal
currentCount(projectId) == Len(withinWindow(rateLimits[projectId]))

\* Variant of allowed that admits a request when the count has reached
\* maxRequests.
allowed_inclusive(projectId) == currentCount(projectId) <= RateLimitMaxRequests

\* allowed: currentCount < maxRequests
allowed(projectId) == currentCount(projectId) < RateLimitMaxRequests

\* the sorted set after the pipeline: old entries removed, this request added
checkLimit(projectId) ==
    [rateLimits EXCEPT ![projectId] = Append(withinWindow(@), now)]

(* ----------------------- EmailService.sendEmail ----------------------- *)
Callers == {1, 2}

IdleCall == [pc |-> "idle"]

Requests(tos, keys, templateIds, contents) ==
    [to : tos, idempotencyKey : keys, templateId : templateIds, hasContent : contents]

SendsStarted == Len(responses) + Cardinality({c \in Callers : api[c].pc # "idle"})

\* The handler returns: the response goes to the caller. seen, at, created,
\* expired and calledAt are history fields: the number of responses given
\* when the call started, the time of the response, the Message row the call
\* created (0: none), whether the call's idempotency check met an expired
\* entry, and the time of the call's checkLimit.
Respond(c, success, code, data) ==
    /\ responses' = Append(responses,
           [caller |-> c, projectId |-> api[c].projectId,
            idempotencyKey |-> api[c].idempotencyKey, to |-> api[c].to,
            success |-> success, code |-> code, data |-> data,
            seen |-> api[c].seen, at |-> now, created |-> api[c].messageId,
            expired |-> api[c].expired, calledAt |-> api[c].calledAt])
    /\ api' = [api EXCEPT ![c] = IdleCall]

NoData == [messageId |-> 0, status |-> "none"]

\* POST /v1/send with a valid body; sendEmail starts with the rate limit.
SendEmail(c, projectId, request) ==
    /\ api[c].pc = "idle"
    /\ rateLimits' = checkLimit(projectId)
    /\ IF allowed(projectId)
       THEN /\ api' = [api EXCEPT ![c] =
                   [pc |-> "idempotency", projectId |-> projectId,
                    to |-> request.to, idempotencyKey |-> request.idempotencyKey,
                    templateId |-> request.templateId,
                    hasContent |-> request.hasContent,
                    i |-> 1, messageId |-> 0, seen |-> Len(responses),
                    expired |-> FALSE, calledAt |-> now]]
            /\ UNCHANGED responses
       ELSE /\ responses' = Append(responses,
                   [caller |-> c, projectId |-> projectId,
                    idempotencyKey |-> request.idempotencyKey, to |-> request.to,
                    success |-> FALSE, code |-> "RATE_LIMIT_EXCEEDED", data |-> NoData,
                    seen |-> Len(responses), at |-> now, created |-> 0,
                    expired |-> FALSE, calledAt |-> now])
            /\ UNCHANGED api
    /\ UNCHANGED <<dbVars, jobs, transportLog, now, smtpVars, hookVars, util>>

\* POST /v1/send with a body that sendEmailWithOptionsSchema rejects: the
\* route answers 400 VALIDATION_ERROR and does not call sendEmail.
SendInvalid(c, projectId) ==
    /\ api[c].pc = "idle"
    /\ responses' = Append(responses,
           [caller |-> c, projectId |-> projectId,
            idempotencyKey |-> NoKey, to |-> << >>,
            success |-> FALSE, code |-> "VALIDATION_ERROR", data |-> NoData,
            seen |-> Len(responses), at |-> now, created |-> 0,
                    expired |-> FALSE, calledAt |-> now])
    /\ UNCHANGED <<dbVars, jobs, transportLog, rateLimits, now, api, smtpVars, hookVars, util>>

\* if (options.idempotencyKey) { existing = await this.idempotency.check(...) }
SendIdempotencyCheck(c) ==
    /\ api[c].pc = "idempotency"
    /\ IF api[c].idempotencyKey = NoKey
       THEN /\ api' = [api EXCEPT ![c].pc = "suppression"]
            /\ UNCHANGED <<idempotencyKeys, responses>>
       ELSE LET existing == check(api[c].idempotencyKey, sendScope(api[c].projectId))
            IN  /\ idempotencyKeys' = checkDeletes(api[c].idempotencyKey)
                /\ IF existing # {}
                   THEN Respond(c, TRUE, "OK", (CHOOSE r \in existing : TRUE).response)
                   ELSE /\ api' = [api EXCEPT
                               ![c].pc = "suppression",
                               ![c].expired = \E r \in findIdempotencyKey(api[c].idempotencyKey) :
                                                  isExpired(r)]
                        /\ UNCHANGED responses
    /\ UNCHANGED <<messages, events, suppressions, jobs, transportLog, rateLimits, now, smtpVars, hookVars, util>>

\* Variant of SendSuppressionCheck that looks up the first recipient only.
SendSuppressionCheck_firstOnly(c) ==
    /\ api[c].pc = "suppression"
    /\ IF isSuppressed(api[c].projectId, api[c].to[1])
       THEN Respond(c, FALSE, "RECIPIENT_SUPPRESSED", NoData)
       ELSE /\ api' = [api EXCEPT ![c].pc = "template"]
            /\ UNCHANGED responses
    /\ UNCHANGED <<dbVars, jobs, transportLog, rateLimits, now, smtpVars, hookVars, util>>

\* for (const recipient of toEmails) { suppressed = await findUnique(...) }
SendSuppressionCheck(c) ==
    /\ api[c].pc = "suppression"
    /\ IF api[c].i > Len(api[c].to)
       THEN /\ api' = [api EXCEPT ![c].pc = "template"]
            /\ UNCHANGED responses
       ELSE IF isSuppressed(api[c].projectId, api[c].to[api[c].i])
       THEN Respond(c, FALSE, "RECIPIENT_SUPPRESSED", NoData)
       ELSE /\ api' = [api EXCEPT ![c].i = @ + 1,
                                  ![c].pc = IF api[c].i = Len(api[c].to)
                                            THEN "template" ELSE "suppression"]
            /\ UNCHANGED responses
    /\ UNCHANGED <<dbVars, jobs, transportLog, rateLimits, now, smtpVars, hookVars, util>>

\* prisma.template.findFirst({ where: { id, projectId } })
findTemplate(templateId, projectId) ==
    {t \in Templates : t.id = templateId /\ t.projectId = projectId}

\* htmlBody || textBody after the template was applied
contentPresent(call) ==
    IF call.templateId = NoTemplate
    THEN call.hasContent
    ELSE \E t \in findTemplate(call.templateId, call.projectId) : t.hasContent

\* Variant of SendTemplate that tests the content after message.create.
SendTemplate_contentAfterCreate(c) ==
    /\ api[c].pc = "template"
    /\ IF api[c].templateId # NoTemplate
          /\ findTemplate(api[c].templateId, api[c].projectId) = {}
       THEN /\ Respond(c, FALSE, "TEMPLATE_NOT_FOUND", NoData)
            /\ UNCHANGED messages
       ELSE IF ~contentPresent(api[c])
       THEN /\ messages' = Append(messages,
                   [projectId |-> api[c].projectId, toEmail |-> api[c].to,
                    status |-> "QUEUED", error |-> NoError,
                    idempotencyKey |-> api[c].idempotencyKey, tags |-> << >>,
                    externalId |-> NoExternalId, sentAt |-> NullTime,
                    deliveredAt |-> NullTime, transitions |-> << >>])
            /\ Respond(c, FALSE, "MISSING_CONTENT", NoData)
       ELSE /\ api' = [api EXCEPT ![c].pc = "create"]
            /\ UNCHANGED <<responses, messages>>
    /\ UNCHANGED <<events, suppressions, idempotencyKeys, jobs, transportLog,
                   rateLimits, now, smtpVars, hookVars, util>>

\* if (data.templateId) {...}; if (!htmlBody && !textBody) {...}
SendTemplate(c) ==
    /\ api[c].pc = "template"
    /\ IF api[c].templateId # NoTemplate
          /\ findTemplate(api[c].templateId, api[c].projectId) = {}
       THEN Respond(c, FALSE, "TEMPLATE_NOT_FOUND", NoData)
       ELSE IF ~contentPresent(api[c])
       THEN Respond(c, FALSE, "MISSING_CONTENT", NoData)
       ELSE /\ api' = [api EXCEPT ![c].pc = "create"]
            /\ UNCHANGED responses
    /\ UNCHANGED <<dbVars, jobs, transportLog, rateLimits, now, smtpVars, hookVars, util>>

NewMessage(projectId, toEmail, idempotencyKey, tags) ==
    [projectId |-> projectId, toEmail |-> toEmail, status |-> "QUEUED",
     error |-> NoError, idempotencyKey |-> idempotencyKey, tags |-> tags,
     externalId |-> NoExternalId, sentAt |-> NullTime, deliveredAt |-> NullTime,
     transitions |-> << >>]

\* const message = await this.prisma.message.create({...})
SendCreateMessage(c) ==
    /\ api[c].pc = "create"
    /\ messages' = Append(messages,
           NewMessage(api[c].projectId, api[c].to, api[c].idempotencyKey, << >>))
    /\ api' = [api EXCEPT ![c].pc = "event", ![c].messageId = Len(messages) + 1]
    /\ UNCHANGED <<events, suppressions, idempotencyKeys, jobs, transportLog,
                   rateLimits, now, responses, smtpVars, hookVars, util>>

\* await this.prisma.event.create({ type: 'QUEUED', ... })
SendCreateEvent(c) ==
    /\ api[c].pc = "event"
    /\ events' = recordEvent(api[c].messageId, "QUEUED", [source |-> "api"])
    /\ api' = [api EXCEPT ![c].pc = "enqueue"]
    /\ UNCHANGED <<messages, suppressions, idempotencyKeys, jobs, transportLog,
                   rateLimits, now, responses, smtpVars, hookVars, util>>

\* await this.queues.sendEmail.add(`send:${message.id}`, jobData, jobOptions):
\* the API's queue was built with config.queue.defaultJobOptions.
BackoffDelayMs == 5000

SendEnqueue(c) ==
    /\ api[c].pc = "enqueue"
    /\ jobs' = Append(jobs,
           NewJob(<<"send", api[c].messageId>>, api[c].messageId, api[c].projectId,
                  api[c].to, DefaultJobAttempts, BackoffDelayMs))
    /\ IF api[c].idempotencyKey = NoKey
       THEN Respond(c, TRUE, "OK", [messageId |-> api[c].messageId, status |-> "QUEUED"])
       ELSE /\ api' = [api EXCEPT ![c].pc = "store"]
            /\ UNCHANGED responses
    /\ UNCHANGED <<dbVars, transportLog, rateLimits, now, smtpVars, hookVars, util>>

\* await this.idempotency.store(key, scope, response); return { success: true }.
\* When store throws, the route's error handler answers with the error's code.
SendStore(c) ==
    /\ api[c].pc = "store"
    /\ LET response == [messageId |-> api[c].messageId, status |-> "QUEUED"]
       IN  IF storeThrows(api[c].idempotencyKey)
           THEN /\ Respond(c, FALSE, "P2002", NoData)
                /\ UNCHANGED idempotencyKeys
           ELSE /\ idempotencyKeys' =
                       store(api[c].idempotencyKey, sendScope(api[c].projectId), response)
                /\ Respond(c, TRUE, "OK", response)
    /\ UNCHANGED <<messages, events, suppressions, jobs, transportLog, rateLimits, now, smtpVars, hookVars, util>>

\* Time passes.
Tick ==
    /\ now < MaxTicks * TickMs
    /\ now' = now + TickMs
    /\ UNCHANGED <<dbVars, jobs, transportLog, apiVars, smtpVars, hookVars, util>>

(* -------------------------- SmtpRelayServer --------------------------- *)
\* tables projects and api_keys; bcrypt.compare(password, keyHash) holds
\* exactly for the secret the hash was made from.
ProjectRows == {
    [id |-> "pA", status |-> "ACTIVE"],
    [id |-> "pB", status |-> "ACTIVE"],
    [id |-> "pS", status |-> "SUSPENDED"] }

ApiKeyRows == {
    [id |-> "keyA", projectId |-> "pA", secret |-> "sA", revoked |-> FALSE, scopes |-> {"send:email", "logs:read"}],
    [id |-> "keyA2", projectId |-> "pA", secret |-> "sA2", revoked |-> TRUE, scopes |-> {"send:email"}],
    [id |-> "keyA3", projectId |-> "pA", secret |-> "sA3", revoked |-> FALSE, scopes |-> {"logs:read"}],
    [id |-> "keyB", projectId |-> "pB", secret |-> "sB", revoked |-> FALSE, scopes |-> {"send:email"}],
    [id |-> "keyS", projectId |-> "pS", secret |-> "sS", revoked |-> FALSE, scopes |-> {"send:email"}] }

Usernames == {"pA", "pB", "pS", "pX", ""}
Passwords == {"sA", "sA2", "sA3", "sB", "sS", ""}
NoAddress == "none"

NewSession ==
    [projectId |-> NoProject, envelopeFrom |-> NoAddress, envelopeTo |-> << >>,
     mailFrom |-> FALSE, rcptTo |-> 0,
     pc |-> "ready", i |-> 1, messageId |-> 0,
     suppressedAtData |-> FALSE]

Reply(command, ok, error) == [command |-> command, ok |-> ok, error |-> error]

\* Variant of matchingKeys that does not skip revoked keys.
matchingKeys_withRevoked(projectId, password) ==
    {k \in ApiKeyRows : k.projectId = projectId /\ k.secret = password}

\* the first non-revoked key of the project that matches the password
matchingKeys(projectId, password) ==
    {k \in ApiKeyRows : k.projectId = projectId /\ ~k.revoked /\ k.secret = password}

\* handleAuth: the error it answers with, "" when authentication succeeds
authError(username, password) ==
    IF username = "" \/ password = ""
    THEN "Authentication required"
    ELSE IF ~\E p \in ProjectRows : p.id = username /\ p.status = "ACTIVE"
    THEN "Invalid credentials"
    ELSE IF \E k \in matchingKeys(username, password) : "send:email" \notin k.scopes
    THEN "API key does not have email sending permission"
    ELSE IF matchingKeys(username, password) = {}
    THEN "Invalid credentials"
    ELSE ""

handleAuth(username, password) ==
    /\ session.pc = "ready"
    /\ LET error == authError(username, password)
       IN  /\ session' = IF error = "" THEN [session EXCEPT !.projectId = username]
                                       ELSE session
           /\ smtpReply' = Reply("AUTH", error = "", error)
    /\ UNCHANGED <<dbVars, jobs, transportLog, now, apiVars, hookVars, util>>

\* Variant of handleMailFrom without the test of session.projectId.
handleMailFrom_noAuthCheck(address) ==
    /\ session.pc = "ready"
    /\ ~session.mailFrom
    /\ session' = [session EXCEPT !.envelopeFrom = address, !.mailFrom = TRUE]
    /\ smtpReply' = Reply("MAIL", TRUE, "")
    /\ UNCHANGED <<dbVars, jobs, transportLog, now, apiVars, hookVars, util>>

\* MAIL FROM: the server accepts it when no transaction is open.
handleMailFrom(address) ==
    /\ session.pc = "ready"
    /\ ~session.mailFrom
    /\ IF session.projectId = NoProject
       THEN /\ smtpReply' = Reply("MAIL", FALSE, "Not authenticated")
            /\ UNCHANGED session
       ELSE /\ session' = [session EXCEPT !.envelopeFrom = address, !.mailFrom = TRUE]
            /\ smtpReply' = Reply("MAIL", TRUE, "")
    /\ UNCHANGED <<dbVars, jobs, transportLog, now, apiVars, hookVars, util>>

\* RCPT TO: the server accepts it inside a transaction.
handleRcptTo(address) ==
    /\ session.pc = "ready"
    /\ session.mailFrom
    /\ Len(session.envelopeTo) < MaxRcpt
    /\ IF session.projectId = NoProject
       THEN /\ smtpReply' = Reply("RCPT", FALSE, "Not authenticated")
            /\ UNCHANGED session
       ELSE /\ session' = [session EXCEPT !.envelopeTo = Append(@, address),
                                          !.rcptTo = @ + 1]
            /\ smtpReply' = Reply("RCPT", TRUE, "")
    /\ UNCHANGED <<dbVars, jobs, transportLog, now, apiVars, hookVars, util>>

\* The transaction ends: the server resets its envelope; what the handlers
\* stored on the session object stays.
endTransaction(s) == [s EXCEPT !.mailFrom = FALSE, !.rcptTo = 0, !.pc = "ready", !.i = 1]

\* Some address of the list has a suppression row in the project.
anySuppressed(projectId, to) == \E k \in 1..Len(to) : isSuppressed(projectId, to[k])

\* DATA: the server passes the message to handleData once a recipient was
\* accepted; handleData tests the session and parses the stream.
\* suppressedAtData is a history field: whether a recipient of the transaction
\* had a suppression row when DATA arrived.
handleData ==
    /\ session.pc = "ready"
    /\ session.mailFrom
    /\ session.rcptTo > 0
    /\ IF session.projectId = NoProject
       THEN /\ smtpReply' = Reply("DATA", FALSE, "Not authenticated")
            /\ session' = endTransaction(session)
       ELSE /\ session' = [session EXCEPT
                    !.pc = "suppression", !.i = 1,
                    !.suppressedAtData = anySuppressed(session.projectId, session.envelopeTo)]
            /\ UNCHANGED smtpReply
    /\ UNCHANGED <<dbVars, jobs, transportLog, now, apiVars, hookVars, util>>

\* Variant of DataSuppressionCheck that looks up the first recipient only.
DataSuppressionCheck_firstOnly ==
    /\ session.pc = "suppression"
    /\ IF isSuppressed(session.projectId, session.envelopeTo[1])
       THEN /\ smtpReply' = Reply("DATA", FALSE, "Recipient is suppressed")
            /\ session' = endTransaction(session)
       ELSE /\ session' = [session EXCEPT !.pc = "create"]
            /\ UNCHANGED smtpReply
    /\ UNCHANGED <<dbVars, jobs, transportLog, now, apiVars, hookVars, util>>

\* for (const recipient of envelopeTo) { suppressed = await findUnique(...) }
DataSuppressionCheck ==
    /\ session.pc = "suppression"
    /\ IF session.i > Len(session.envelopeTo)
       THEN /\ session' = [session EXCEPT !.pc = "create"]
            /\ UNCHANGED smtpReply
       ELSE IF isSuppressed(session.projectId, session.envelopeTo[session.i])
       THEN /\ smtpReply' = Reply("DATA", FALSE, "Recipient is suppressed")
            /\ session' = endTransaction(session)
       ELSE /\ session' = [session EXCEPT !.i = @ + 1,
                                          !.pc = IF session.i = Len(session.envelopeTo)
                                                 THEN "create" ELSE "suppression"]
            /\ UNCHANGED smtpReply
    /\ UNCHANGED <<dbVars, jobs, transportLog, now, apiVars, hookVars, util>>

\* const message = await this.prisma.message.create({...})
DataCreateMessage ==
    /\ session.pc = "create"
    /\ messages' = Append(messages,
           NewMessage(session.projectId, session.envelopeTo, NoKey, <<"smtp-relay">>))
    /\ session' = [session EXCEPT !.pc = "event", !.messageId = Len(messages) + 1]
    /\ UNCHANGED <<events, suppressions, idempotencyKeys, jobs, transportLog, now,
                   apiVars, smtpReply, hookVars, util>>

\* await this.prisma.event.create({ type: 'QUEUED', payload: { source: 'smtp-relay' } })
DataCreateEvent ==
    /\ session.pc = "event"
    /\ events' = recordEvent(session.messageId, "QUEUED", [source |-> "smtp-relay"])
    /\ session' = [session EXCEPT !.pc = "enqueue"]
    /\ UNCHANGED <<messages, suppressions, idempotencyKeys, jobs, transportLog, now,
                   apiVars, smtpReply, hookVars, util>>

\* await this.queue.add(`smtp:${message.id}`, jobData); callback().
\* The relay's queue was built without defaultJobOptions and add passes no
\* options: the job has no attempts option and no backoff.
DataEnqueue ==
    /\ session.pc = "enqueue"
    /\ jobs' = Append(jobs,
           NewJob(<<"smtp", session.messageId>>, session.messageId, session.projectId,
                  session.envelopeTo, UnsetJobAttempts, 0))
    /\ session' = endTransaction(session)
    /\ smtpReply' = Reply("DATA", TRUE, "")
    /\ UNCHANGED <<dbVars, transportLog, now, apiVars, hookVars, util>>

(* ------------------------- WebhookService.trigger --------------------- *)
\* Calls of trigger in one run.
MaxTriggers == 1

\* attempts and backoff.delay of the jobs that trigger adds
WebhookAttempts == 5
WebhookBackoffDelayMs == 5000
\* concurrency of the webhook Worker
WebhookConcurrency == 20

WebhookEventTypes == {"message.sent", "message.delivered", "message.failed"}

NewWebhook(projectId, active, eventTypes) ==
    [projectId |-> projectId, active |-> active, eventTypes |-> eventTypes,
     successCount |-> 0, failCount |-> 0, lastTriggeredAt |-> NullTime]

\* table webhooks as the run finds it: the subscriptions of two projects
WebhookRows ==
    [w \in {"w1", "w2", "w3", "w4"} |->
        CASE w = "w1" -> NewWebhook("pA", TRUE, WebhookEventTypes)
          [] w = "w2" -> NewWebhook("pA", FALSE, WebhookEventTypes)
          [] w = "w3" -> NewWebhook("pB", TRUE, {"message.sent"})
          [] w = "w4" -> NewWebhook("pA", TRUE, {"message.delivered"})]

WebhookIds == DOMAIN WebhookRows

\* The jobs that the calls of trigger can add.
MaxWebhookJobs == MaxTriggers * Cardinality(WebhookIds)

\* The data that callers pass to trigger: a message id (0: the test message).
TriggerData == {0}

IdleTrigger == [pc |-> "idle", calls |-> << >>]

\* Variant of findManyWebhooks without the filter on active.
findManyWebhooks_anyActive(projectId, eventType) ==
    {w \in DOMAIN webhooks :
        /\ webhooks[w].projectId = projectId
        /\ eventType \in webhooks[w].eventTypes}

\* prisma.webhook.findMany({ where: { projectId, active: true, eventTypes: { has } } })
findManyWebhooks(projectId, eventType) ==
    {w \in DOMAIN webhooks :
        /\ webhooks[w].projectId = projectId
        /\ webhooks[w].active
        /\ eventType \in webhooks[w].eventTypes}

\* queues.webhook.add(name, jobData, { attempts: 5, backoff: { exponential, 5000 } }).
\* call, outcomes and concurrent are history fields: the call of trigger that
\* added the job, how each of its attempts ended, and the jobs that were
\* being processed when an attempt of the job began.
NewWebhookJob(webhookId, eventType, data, call) ==
    [webhookId |-> webhookId, eventType |-> eventType, data |-> data,
     attempts |-> WebhookAttempts,
     backoff |-> [type |-> "exponential", delay |-> WebhookBackoffDelayMs],
     attemptsMade |-> 0, state |-> "waiting", pc |-> "none",
     status |-> 0, error |-> "", call |-> call, outcomes |-> << >>,
     concurrent |-> {}]

\* trigger(projectId, eventType, data) up to its return or its first add.
\* The call's arguments and the subscriptions active at the lookup are kept
\* in trig.calls, a history field.
TriggerStart(projectId, eventType, data) ==
    /\ trig.pc = "idle"
    /\ Len(trig.calls) < MaxTriggers
    /\ LET found == findManyWebhooks(projectId, eventType)
       IN  trig' = [pc |-> IF found = {} THEN "idle" ELSE "add",
                    eventType |-> eventType, data |-> data, pending |-> found,
                    calls |-> Append(trig.calls,
                        [projectId |-> projectId, eventType |-> eventType,
                         activeAtCall |-> {w \in DOMAIN webhooks : webhooks[w].active}])]
    /\ UNCHANGED <<dbVars, jobs, transportLog, now, apiVars, smtpVars, util,
                   webhooks, webhookDeliveries, webhookJobs>>

\* for (const webhook of webhooks) { await this.queues.webhook.add(...) }
TriggerAdd ==
    /\ trig.pc = "add"
    /\ \E w \in trig.pending :
          /\ webhookJobs' = Append(webhookJobs,
                 NewWebhookJob(w, trig.eventType, trig.data, Len(trig.calls)))
          /\ trig' = [trig EXCEPT !.pending = @ \ {w},
                                  !.pc = IF trig.pending = {w} THEN "idle" ELSE "add"]
    /\ UNCHANGED <<dbVars, jobs, transportLog, now, apiVars, smtpVars, util,
                   webhooks, webhookDeliveries>>

\* DELETE /v1/webhooks/:id: the row goes, and with it the subscription's
\* delivery rows (webhook_deliveries_webhook_id_fkey, ON DELETE CASCADE).
DeleteWebhook(w) ==
    /\ w \in DOMAIN webhooks
    /\ webhooks' = [v \in DOMAIN webhooks \ {w} |-> webhooks[v]]
    /\ webhookDeliveries' =
           [j \in DOMAIN webhookDeliveries |->
               IF j \in 1..Len(webhookJobs) /\ webhookJobs[j].webhookId = w
               THEN << >> ELSE webhookDeliveries[j]]
    /\ UNCHANGED <<dbVars, jobs, transportLog, now, apiVars, smtpVars, util,
                   webhookJobs, trig>>

\* PATCH /v1/webhooks/:id with { active: false }
DeactivateWebhook(w) ==
    /\ w \in DOMAIN webhooks
    /\ webhooks[w].active
    /\ webhooks' = [webhooks EXCEPT ![w].active = FALSE]
    /\ UNCHANGED <<dbVars, jobs, transportLog, now, apiVars, smtpVars, util,
                   webhookDeliveries, webhookJobs, trig>>

(* ------------------------ WebhookProcessor.process -------------------- *)
NullStatus == 0
NullText == ""
ErrFetchFailed == "fetch failed"
\* Prisma: create with a foreign key that references no row, update of a
\* row that does not exist
ErrForeignKey == "P2003"
ErrRecordNotFound == "P2025"
\* the HTTP status codes that endpoints answer with in a run
ResponseStatuses == {200, 500}

\* response.ok
ok(status) == status \in 200..299

\* `HTTP ${response.status}`
httpError(status) == IF status = 500 THEN "HTTP 500" ELSE "HTTP"

WhAtPc(j, pc) == webhookJobs[j].state = "active" /\ webhookJobs[j].pc = pc

ActiveWebhookJobs == {j \in 1..Len(webhookJobs) : webhookJobs[j].state = "active"}

hookRest == <<dbVars, jobs, transportLog, now, apiVars, smtpVars, trig, util>>

\* The webhook Worker takes a waiting job and calls webhookProcessor.process(job).
WhLease(j) ==
    /\ webhookJobs[j].state = "waiting"
    /\ Cardinality(ActiveWebhookJobs) < WebhookConcurrency
    /\ webhookJobs' = [webhookJobs EXCEPT ![j].state = "active", ![j].pc = "find",
                                          ![j].status = NullStatus, ![j].error = NullText,
                                          ![j].concurrent = @ \cup ActiveWebhookJobs]
    /\ UNCHANGED <<hookRest, webhooks, webhookDeliveries>>

\* A delayed job's backoff delay has elapsed.
WhPromote(j) ==
    /\ webhookJobs[j].state = "delayed"
    /\ webhookJobs' = [webhookJobs EXCEPT ![j].state = "waiting"]
    /\ UNCHANGED <<hookRest, webhooks, webhookDeliveries>>

\* Variant of whMoveToFailed that allows one attempt more.
whMoveToFailed_oneMore(job) ==
    LET made == job.attemptsMade + 1
    IN  [job EXCEPT !.attemptsMade = made,
                    !.pc = "none",
                    !.state = IF made <= job.attempts THEN "delayed" ELSE "failed"]

\* The processor threw: the queue counts the attempt and retries the job after
\* its backoff delay while attempts remain, else marks it failed.
whMoveToFailed(job) ==
    LET made == job.attemptsMade + 1
    IN  [job EXCEPT !.attemptsMade = made,
                    !.pc = "none",
                    !.state = IF made < job.attempts THEN "delayed" ELSE "failed"]

\* The subscription's row exists.
WebhookExists(webhookId) == webhookId \in DOMAIN webhooks

\* Variant of WhFindWebhook for which a missing subscription is a failure of
\* the attempt.
WhFindWebhook_missingThrows(j) ==
    /\ WhAtPc(j, "find")
    /\ webhookJobs' =
           IF ~WebhookExists(webhookJobs[j].webhookId)
           THEN [webhookJobs EXCEPT ![j] = whMoveToFailed(@)]
           ELSE IF webhooks[webhookJobs[j].webhookId].active
           THEN [webhookJobs EXCEPT ![j].pc = "fetch"]
           ELSE [webhookJobs EXCEPT ![j].state = "completed", ![j].pc = "none",
                                    ![j].outcomes = Append(@, "skipped")]
    /\ UNCHANGED <<hookRest, webhooks, webhookDeliveries>>

\* const webhook = await findUnique(...); if (!webhook) return;
\* if (!webhook.active) return
WhFindWebhook(j) ==
    /\ WhAtPc(j, "find")
    /\ webhookJobs' =
           IF /\ WebhookExists(webhookJobs[j].webhookId)
              /\ webhooks[webhookJobs[j].webhookId].active
           THEN [webhookJobs EXCEPT ![j].pc = "fetch"]
           ELSE [webhookJobs EXCEPT ![j].state = "completed", ![j].pc = "none",
                                    ![j].outcomes = Append(@, "skipped")]
    /\ UNCHANGED <<hookRest, webhooks, webhookDeliveries>>

\* const response = await fetch(webhook.url, {...}): the endpoint answers, or
\* the request fails or times out.
WhFetch(j) ==
    /\ WhAtPc(j, "fetch")
    /\ \/ \E status \in ResponseStatuses :
             webhookJobs' = [webhookJobs EXCEPT
                 ![j].pc = "record", ![j].status = status,
                 ![j].outcomes = Append(@, IF ok(status) THEN "2xx" ELSE "non2xx")]
       \/ webhookJobs' = [webhookJobs EXCEPT
                 ![j].pc = "catch", ![j].error = ErrFetchFailed,
                 ![j].outcomes = Append(@, "error")]
    /\ UNCHANGED <<hookRest, webhooks, webhookDeliveries>>

\* The row of one prisma.webhookDelivery.create; attempt is a history field.
DeliveryRow(job, responseStatus, responseBody, error) ==
    [webhookId |-> job.webhookId, eventType |-> job.eventType,
     responseStatus |-> responseStatus, responseBody |-> responseBody,
     error |-> error, attempt |-> job.attemptsMade + 1]

\* await this.prisma.webhookDelivery.create({ responseStatus, responseBody });
\* response.text() gives the body, or null when reading it fails.
WhRecordDelivery(j) ==
    /\ WhAtPc(j, "record")
    /\ IF WebhookExists(webhookJobs[j].webhookId)
       THEN /\ \E body \in {"body", NullText} :
                  webhookDeliveries' = [webhookDeliveries EXCEPT ![j] =
                      Append(@, DeliveryRow(webhookJobs[j], webhookJobs[j].status, body, NullText))]
            /\ webhookJobs' = [webhookJobs EXCEPT
                   ![j].pc = IF ok(webhookJobs[j].status) THEN "updateSuccess" ELSE "updateFail"]
       ELSE /\ webhookJobs' = [webhookJobs EXCEPT ![j].pc = "catch", ![j].error = ErrForeignKey]
            /\ UNCHANGED webhookDeliveries
    /\ UNCHANGED <<hookRest, webhooks>>

\* Variant of WhUpdateSuccess that writes back the count that it read when
\* the run began, plus one.
WhUpdateSuccess_readThenWrite(j) ==
    /\ WhAtPc(j, "updateSuccess")
    /\ webhooks' = [webhooks EXCEPT
           ![webhookJobs[j].webhookId].successCount =
               WebhookRows[webhookJobs[j].webhookId].successCount + 1,
           ![webhookJobs[j].webhookId].lastTriggeredAt = now]
    /\ webhookJobs' = [webhookJobs EXCEPT ![j].state = "completed", ![j].pc = "none"]
    /\ UNCHANGED <<hookRest, webhookDeliveries>>

\* if (response.ok) { await webhook.update({ successCount: +1, lastTriggeredAt }) }:
\* { increment: 1 } is one UPDATE ... SET success_count = success_count + 1.
WhUpdateSuccess(j) ==
    /\ WhAtPc(j, "updateSuccess")
    /\ IF WebhookExists(webhookJobs[j].webhookId)
       THEN /\ webhooks' = [webhooks EXCEPT
                   ![webhookJobs[j].webhookId].successCount = @ + 1,
                   ![webhookJobs[j].webhookId].lastTriggeredAt = now]
            /\ webhookJobs' = [webhookJobs EXCEPT ![j].state = "completed", ![j].pc = "none"]
       ELSE /\ webhookJobs' = [webhookJobs EXCEPT ![j].pc = "catch",
                                                  ![j].error = ErrRecordNotFound]
            /\ UNCHANGED webhooks
    /\ UNCHANGED <<hookRest, webhookDeliveries>>

\* Variant of WhUpdateFail that throws without the update of failCount.
WhUpdateFail_noIncrement(j) ==
    /\ WhAtPc(j, "updateFail")
    /\ webhookJobs' = [webhookJobs EXCEPT
           ![j].pc = "catch",
           ![j].error = IF WebhookExists(webhookJobs[j].webhookId)
                        THEN httpError(webhookJobs[j].status) ELSE ErrRecordNotFound]
    /\ UNCHANGED <<hookRest, webhooks, webhookDeliveries>>

\* else { await webhook.update({ failCount: +1, lastTriggeredAt });
\* throw new Error(`HTTP ${response.status}`) }: the throw is inside the try
\* block, so control goes to its catch block.
WhUpdateFail(j) ==
    /\ WhAtPc(j, "updateFail")
    /\ IF WebhookExists(webhookJobs[j].webhookId)
       THEN /\ webhooks' = [webhooks EXCEPT
                   ![webhookJobs[j].webhookId].failCount = @ + 1,
                   ![webhookJobs[j].webhookId].lastTriggeredAt = now]
            /\ webhookJobs' = [webhookJobs EXCEPT ![j].pc = "catch",
                                                  ![j].error = httpError(webhookJobs[j].status)]
       ELSE /\ webhookJobs' = [webhookJobs EXCEPT ![j].pc = "catch",
                                                  ![j].error = ErrRecordNotFound]
            /\ UNCHANGED webhooks
    /\ UNCHANGED <<hookRest, webhookDeliveries>>

\* Variant of WhCatchRecord that keeps the response status in the row.
WhCatchRecord_keepsStatus(j) ==
    /\ WhAtPc(j, "catch")
    /\ webhookDeliveries' = [webhookDeliveries EXCEPT ![j] =
           Append(@, DeliveryRow(webhookJobs[j], webhookJobs[j].status, NullText,
                                 webhookJobs[j].error))]
    /\ webhookJobs' = [webhookJobs EXCEPT ![j].pc = "catchUpdate"]
    /\ UNCHANGED <<hookRest, webhooks>>

\* catch (error) { await this.prisma.webhookDelivery.create({ error: errorMessage }):
\* when the create throws, the exception leaves process.
WhCatchRecord(j) ==
    /\ WhAtPc(j, "catch")
    /\ IF WebhookExists(webhookJobs[j].webhookId)
       THEN /\ webhookDeliveries' = [webhookDeliveries EXCEPT ![j] =
                   Append(@, DeliveryRow(webhookJobs[j], NullStatus, NullText,
                                         webhookJobs[j].error))]
            /\ webhookJobs' = [webhookJobs EXCEPT ![j].pc = "catchUpdate"]
       ELSE /\ webhookJobs' = [webhookJobs EXCEPT ![j] = whMoveToFailed(@)]
            /\ UNCHANGED webhookDeliveries
    /\ UNCHANGED <<hookRest, webhooks>>

\* await webhook.update({ failCount: +1, lastTriggeredAt }); throw error }
WhCatchUpdate(j) ==
    /\ WhAtPc(j, "catchUpdate")
    /\ webhooks' = IF WebhookExists(webhookJobs[j].webhookId)
                   THEN [webhooks EXCEPT
                            ![webhookJobs[j].webhookId].failCount = @ + 1,
                            ![webhookJobs[j].webhookId].lastTriggeredAt = now]
                   ELSE webhooks
    /\ webhookJobs' = [webhookJobs EXCEPT ![j] = whMoveToFailed(@)]
    /\ UNCHANGED <<hookRest, webhookDeliveries>>

(* -------------------------- shared utilities -------------------------- *)
\* A call of a utility function: its name, its arguments and what it returned.
UtilCall(fn, args, result) == [fn |-> fn, args |-> args, result |-> result]
NoCall == UtilCall("none", << >>, << >>)

\* The other variables while a utility function is called.
utilRest == <<dbVars, jobs, transportLog, now, apiVars, smtpVars, hookVars>>

(* --------------------- signWebhookPayload / verify -------------------- *)
\* Strings are sequences of UTF-16 code units. NUL is U+0000; HiSurrogates
\* are two high surrogates, which are lone wherever they stand because no
\* low surrogate is among the units.
NUL == "\\0"
HiSurrogates == {"\\uD800", "\\uD801"}
PayloadUnits == {"a"} \cup HiSurrogates
SecretUnits == {"k", "j", NUL}

\* Longest payload and secret of a call.
MaxPayloadLen == 2
MaxSecretLen == 2

StringsOver(units, maxLen) == UNION {[1..n -> units] : n \in 1..maxLen}
Payloads == StringsOver(PayloadUnits, MaxPayloadLen)
Secrets == StringsOver(SecretUnits, MaxSecretLen)

\* Buffer.from(string, 'utf8'), which createHmac and update apply to a string:
\* a lone surrogate is encoded as U+FFFD (EF BF BD).
utf8Unit(u) ==
    CASE u = NUL -> <<0>>
      [] u = "a" -> <<97>>
      [] u = "j" -> <<106>>
      [] u = "k" -> <<107>>
      [] u \in HiSurrogates -> <<239, 191, 189>>

RECURSIVE utf8(_)
utf8(str) == IF str = << >> THEN << >> ELSE utf8Unit(Head(str)) \o utf8(Tail(str))

\* Block size of SHA-256, in bytes.
HmacBlockSize == 64

\* SHA-256 as an ideal hash: the digest determines the input.
sha256(bytes) == <<"sha256", bytes>>

\* HMAC (RFC 2104): a key longer than the block is hashed, a shorter one is
\* padded with zero bytes to the block size.
hmacKey(keyBytes) ==
    IF Len(keyBytes) > HmacBlockSize
    THEN sha256(keyBytes)
    ELSE keyBytes \o [i \in 1..(HmacBlockSize - Len(keyBytes)) |-> 0]

\* crypto.createHmac('sha256', secret).update(payload).digest('hex')
hmacHex(payload, secret) == sha256(<<hmacKey(utf8(secret)), utf8(payload)>>)

\* return `t=${Date.now()},v1=${signature}`: the text as its pieces, each a
\* literal text, a decimal number or a hex digest
signWebhookPayload(payload, secret) ==
    << <<"text", "t=">>, <<"digits", now>>, <<"text", ",v1=">>,
       <<"hex", hmacHex(payload, secret)>> >>

NoMatch == <<"null">>

\* signature.match(/v1=([a-f0-9]+)/): the hex digest after the first text
\* that ends in "v1="
matchV1(signature) ==
    LET hits == {i \in 1..(Len(signature) - 1) :
                    /\ signature[i][1] = "text"
                    /\ signature[i][2] \in {"v1=", ",v1="}
                    /\ signature[i + 1][1] = "hex"}
    IN  IF hits = {} THEN NoMatch
        ELSE signature[(CHOOSE i \in hits : \A k \in hits : i <= k) + 1][2]

\* crypto.timingSafeEqual of two hex digests (both 64 characters long)
timingSafeEqual(a, b) == a = b

\* Variant of verifyWebhookPayload that accepts every signature with a v1 part.
verifyWebhookPayload_anyV1(payload, signature, secret) ==
    matchV1(signature) # NoMatch

verifyWebhookPayload(payload, signature, secret) ==
    LET expectedSignature == hmacHex(payload, secret)
        providedSignature == matchV1(signature)
    IN  IF providedSignature = NoMatch THEN FALSE
        ELSE timingSafeEqual(expectedSignature, providedSignature)

\* A sender signs payload with secret.
SignPayload(payload, secret) ==
    /\ util.fn = "none"
    /\ util' = UtilCall("sign", <<payload, secret>>, signWebhookPayload(payload, secret))
    /\ UNCHANGED utilRest

\* The receiver verifies the signature of the last call against a payload and
\* a secret of its own.
VerifyPayload(payload2, secret2) ==
    /\ util.fn = "sign"
    /\ util' = UtilCall("verify", util.args \o <<payload2, secret2>>,
                        verifyWebhookPayload(payload2, util.result, secret2))
    /\ UNCHANGED utilRest

(* --------------------------- calculateBackoff ------------------------- *)
\* Largest attempt number of a call.
MaxBackoffAttempt == 4

\* Base delays and maximum delays of the calls, in ms; 1000 and 60000 are the
\* defaults of the parameters.
BaseDelays == {1, 100, 500, 1000, 5000}
MaxDelays == {1000, 10000, 60000}

\* Math.random() * 1000 lies in [0, 1000); the values drawn for it.
JitterRange == 1000
Jitters == {0, 1, 500, JitterRange - 1}

\* Math.min
Min(a, b) == IF a <= b THEN a ELSE b

\* Variant of calculateBackoff that adds the jitter after the cap.
calculateBackoff_jitterAfterCap(attempt, baseDelay, maxDelay, jitter) ==
    LET exponentialDelay == baseDelay * 2 ^ attempt
    IN  Min(exponentialDelay, maxDelay) + jitter

\* calculateBackoff, with the value of Math.random() * 1000 as jitter
calculateBackoff(attempt, baseDelay, maxDelay, jitter) ==
    LET exponentialDelay == baseDelay * 2 ^ attempt
    IN  Min(exponentialDelay + jitter, maxDelay)

\* calculateBackoff(attempt, baseDelay, maxDelay)
CallBackoff(attempt, baseDelay, maxDelay, jitter) ==
    /\ util.fn = "none"
    /\ util' = UtilCall("calculateBackoff", <<attempt, baseDelay, maxDelay, jitter>>,
                        <<calculateBackoff(attempt, baseDelay, maxDelay, jitter)>>)
    /\ UNCHANGED utilRest

\* Variant of CallBackoffNext that calls with the same attempt again.
CallBackoffNext_sameAttempt(jitter) ==
    /\ util.fn = "calculateBackoff"
    /\ Len(util.result) = 1
    /\ util' = UtilCall("calculateBackoff", Append(util.args, jitter),
                        Append(util.result,
                               calculateBackoff(util.args[1], util.args[2],
                                                util.args[3], jitter)))
    /\ UNCHANGED utilRest

\* calculateBackoff(attempt + 1, baseDelay, maxDelay) after the call for attempt
CallBackoffNext(jitter) ==
    /\ util.fn = "calculateBackoff"
    /\ Len(util.result) = 1
    /\ util' = UtilCall("calculateBackoff", Append(util.args, jitter),
                        Append(util.result,
                               calculateBackoff(util.args[1] + 1, util.args[2],
                                                util.args[3], jitter)))
    /\ UNCHANGED utilRest

(* ------------------------ the time of the next retry ------------------ *)
\* Defaults of calculateBackoff's parameters baseDelay and maxDelay, in ms.
DefaultBaseDelay == 1000
DefaultMaxDelay == 60000

\* BullMQ's built-in backoff of type 'exponential': the delay before the
\* retry that follows the attemptsMade-th failed attempt.
exponentialBackoff(delay, attemptsMade) == delay * 2 ^ (attemptsMade - 1)

\* The catch block of attempt `attempts` of an API job at time t, shouldRetry
\* being true: nextRetryAt as the worker records it in RETRY_SCHEDULED, and
\* the time at which the queue makes the job available again.
ScheduleRetry(attempts, t, jitter) ==
    /\ util.fn = "none"
    /\ util' = UtilCall("scheduleRetry", <<attempts, t, jitter>>,
                        <<t + calculateBackoff(attempts, DefaultBaseDelay, DefaultMaxDelay, jitter),
                          t + exponentialBackoff(BackoffDelayMs, attempts)>>)
    /\ UNCHANGED utilRest

(* ----------------------------- renderTemplate ------------------------- *)
\* Pieces a template of a call is put together from, and how many.
MaxTemplatePieces == 3

Digits == <<"0","1","2","3","4","5","6","7","8","9">>

\* \w of a regular expression: [A-Za-z0-9_]
WordChars ==
    {UpperChars[k] : k \in 1..26} \cup {LowerChars[k] : k \in 1..26}
        \cup {Digits[k] : k \in 1..10} \cup {"_"}

\* A property that every object literal inherits from Object.prototype, and
\* String() of its value, the latter as one unit of text.
ValueOfKey == <<"v","a","l","u","e","O","f">>
PrototypeKeys == {ValueOfKey}
NativeFunctionText == <<"function valueOf() { [native code] }">>

Open == <<"{", "{">>
Close == <<"}", "}">>
TemplatePieces == {Open, Close, <<"{">>, <<" ">>, <<"a">>, <<"b">>, ValueOfKey}

RECURSIVE Concat(_)
Concat(pieces) == IF pieces = << >> THEN << >> ELSE Head(pieces) \o Concat(Tail(pieces))

TemplateTexts ==
    {Concat(pieces) : pieces \in UNION {[1..n -> TemplatePieces] : n \in 1..MaxTemplatePieces}}

\* Values of variables: strings (one of them the text of a placeholder) and a
\* number.
StringValue(str) == [type |-> "string", str |-> str, num |-> 0]
NumberValue(num) == [type |-> "number", str |-> << >>, num |-> num]
VariableValues == {StringValue(<<"x">>), StringValue(Open \o <<"b">> \o Close), NumberValue(42)}
OwnKeys == {<<"a">>, <<"b">>}
VariableSets == UNION {[keys -> VariableValues] : keys \in SUBSET OwnKeys}

\* String(number) for 0..99
NumberToString(num) ==
    IF num < 10 THEN <<Digits[num + 1]>>
    ELSE <<Digits[(num \div 10) + 1], Digits[(num % 10) + 1]>>

\* String(value)
String(value) == IF value.type = "string" THEN value.str ELSE NumberToString(value.num)

\* The length of the longest run of \w characters of t that starts at i.
RECURSIVE WordRun(_, _)
WordRun(t, i) == IF i <= Len(t) /\ t[i] \in WordChars THEN 1 + WordRun(t, i + 1) ELSE 0

\* /\{\{(\w+)\}\}/ matched at position i of t: the length of the key, 0 when
\* there is no match at i.
PlaceholderAt(t, i) ==
    LET n == WordRun(t, i + 2)
    IN  IF /\ i + 1 <= Len(t)
           /\ t[i] = "{" /\ t[i + 1] = "{"
           /\ n > 0
           /\ i + n + 3 <= Len(t)
           /\ t[i + n + 2] = "}" /\ t[i + n + 3] = "}"
        THEN n ELSE 0

\* variables[key] !== undefined: the object has the property itself or
\* inherits it from Object.prototype.
IsDefined(variables, key) == key \in DOMAIN variables \/ key \in PrototypeKeys

\* String(variables[key])
Lookup(variables, key) ==
    IF key \in DOMAIN variables THEN String(variables[key]) ELSE NativeFunctionText

\* template.replace(/\{\{(\w+)\}\}/g, (match, key) => ...) from position i on:
\* each match, found from left to right, is replaced by what the callback
\* returns, and the text between matches is copied.
RECURSIVE renderFrom(_, _, _)
renderFrom(t, variables, i) ==
    IF i > Len(t) THEN << >>
    ELSE LET n == PlaceholderAt(t, i)
             key == SubSeq(t, i + 2, i + n + 1)
         IN  IF n = 0 THEN <<t[i]>> \o renderFrom(t, variables, i + 1)
             ELSE (IF IsDefined(variables, key) THEN Lookup(variables, key)
                   ELSE SubSeq(t, i, i + n + 3))
                  \o renderFrom(t, variables, i + n + 4)

renderTemplate(template, variables) == renderFrom(template, variables, 1)

\* renderTemplate(template, variables)
CallRender(template, variables) ==
    /\ util.fn = "none"
    /\ util' = UtilCall("renderTemplate", <<template, variables>>,
                        renderTemplate(template, variables))
    /\ UNCHANGED utilRest

(* --------------------------- specifications --------------------------- *)
\* A suppression row made outside the pipeline (manual, unsubscribe).
ManualSuppression(projectId, email) ==
    [id |-> 1, projectId |-> projectId, email |-> email, reason |-> "MANUAL",
     source |-> "manual", metadata |-> NoError]

InitialSuppressions == {{}, {ManualSuppression("pA", "r2")}}

Init ==
    /\ messages = << >>
    /\ events = [m \in MessageIds |-> << >>]
    /\ suppressions \in InitialSuppressions
    /\ idempotencyKeys = {}
    /\ jobs = << >>
    /\ transportLog = [m \in MessageIds |-> << >>]
    /\ rateLimits = [p \in Projects |-> << >>]
    /\ now = 0
    /\ api = [c \in Callers |-> IdleCall]
    /\ responses = << >>
    /\ webhooks = WebhookRows
    /\ webhookDeliveries = [j \in 1..MaxWebhookJobs |-> << >>]
    /\ webhookJobs = << >>
    /\ trig = IdleTrigger
    /\ util = NoCall
    /\ session = NewSession
    /\ smtpReply = Reply("none", TRUE, "")

SendSteps(c) ==
    \/ SendIdempotencyCheck(c)
    \/ SendSuppressionCheck(c)
    \/ SendTemplate(c)
    \/ SendCreateEvent(c)
    \/ SendEnqueue(c)
    \/ SendStore(c)

DataSteps ==
    \/ DataSuppressionCheck
    \/ DataCreateEvent
    \/ DataEnqueue

\* The pipeline: an API client of project pA, an SMTP connection, the queue
\* and the worker. MaxMessages caps the message rows of a run.
PipelineRequests ==
    Requests({<<"r1">>, <<"r2", "r1">>}, {NoKey, "k1"}, {NoTemplate}, {TRUE})

PipelineCredentials == {<<"pA", "sA">>, <<"pA", "sA3">>}

\* Handlers that are past their start and have not created their message yet.
PendingAccepts ==
    Cardinality({c \in Callers :
                    api[c].pc \in {"idempotency", "suppression", "template", "create"}})
    + (IF session.pc \in {"suppression", "create"} THEN 1 ELSE 0)

RoomForMessage == Len(messages) + PendingAccepts < MaxMessages

ApiAccept ==
    \/ \E request \in PipelineRequests :
          /\ RoomForMessage
          /\ SendsStarted < MaxSends
          /\ SendEmail(1, "pA", request)
    \/ SendSteps(1)
    \/ SendCreateMessage(1)

RelayAccept ==
    \/ \E cred \in PipelineCredentials : handleAuth(cred[1], cred[2])
    \/ handleMailFrom("from1")
    \/ \E address \in Emails : handleRcptTo(address)
    \/ RoomForMessage /\ handleData
    \/ DataSteps
    \/ DataCreateMessage

Deliver ==
    \/ \E j \in 1..Len(jobs) : Lease(j)
    \/ \E j \in 1..Len(jobs) : Promote(j)
    \/ \E j \in 1..Len(jobs) : ProcessStart(j)
    \/ \E j \in 1..Len(jobs) : ProcessSendMail(j)
    \/ \E j \in 1..Len(jobs) : ProcessMarkSent(j)
    \/ \E j \in 1..Len(jobs) : ProcessMarkDelivered(j)
    \/ \E j \in 1..Len(jobs) : ProcessEventSent(j)
    \/ \E j \in 1..Len(jobs) : ProcessEventDelivered(j)
    \/ \E j \in 1..Len(jobs) : ProcessCatch(j)
    \/ \E j \in 1..Len(jobs) : ProcessEventRetry(j)
    \/ \E j \in 1..Len(jobs) : ProcessEventFailed(j)
    \/ \E j \in 1..Len(jobs) : ProcessSuppress(j)

Next == ApiAccept \/ RelayAccept \/ Deliver

Spec == Init /\ [][Next]_vars

\* The API pipeline with workers that can be lost while they hold a job.
StallNext ==
    \/ ApiAccept
    \/ Deliver
    \/ \E j \in 1..Len(jobs) : Stall(j)

StallSpec == Init /\ [][StallNext]_vars

\* Messages of one run of the bounce pipeline.
MaxBounceMessages == 2

\* The API pipeline for one recipient: messages of project pA to r1, sent at
\* different times without an idempotency key (so the handler has no response
\* to store), and the worker handling them concurrently.
BounceRequests == Requests({<<"r1">>}, {NoKey}, {NoTemplate}, {TRUE})

BounceNext ==
    \/ \E request \in BounceRequests :
          /\ Len(messages) + PendingAccepts < MaxBounceMessages
          /\ SendsStarted < MaxSends
          /\ SendEmail(1, "pA", request)
    \/ SendIdempotencyCheck(1)
    \/ SendSuppressionCheck(1)
    \/ SendTemplate(1)
    \/ SendCreateMessage(1)
    \/ SendCreateEvent(1)
    \/ SendEnqueue(1)
    \/ Deliver
    \/ Tick

BounceSpec == Init /\ [][BounceNext]_vars

\* The API with every kind of request: valid and invalid bodies, templates
\* that exist, that belong to another project or to none, bodies with and
\* without content.
FrameRequests ==
    Requests({<<"r1">>, <<"r2">>}, {NoKey, "k1"}, {NoTemplate, "t1", "tX"}, {TRUE, FALSE})

FrameNext ==
    \/ \E c \in Callers, projectId \in Projects, request \in FrameRequests :
          /\ SendsStarted < MaxSends
          /\ SendEmail(c, projectId, request)
    \/ \E c \in Callers, projectId \in Projects :
          /\ SendsStarted < MaxSends
          /\ SendInvalid(c, projectId)
    \/ \E c \in Callers : SendSteps(c) \/ SendCreateMessage(c)

FrameSpec == Init /\ [][FrameNext]_vars

\* trigger by itself: calls with every project and event type, and
\* subscriptions that are switched off meanwhile.
TriggerNext ==
    \/ \E projectId \in Projects, eventType \in WebhookEventTypes, data \in TriggerData :
          TriggerStart(projectId, eventType, data)
    \/ TriggerAdd
    \/ \E w \in WebhookIds : DeactivateWebhook(w)

TriggerSpec == Init /\ [][TriggerNext]_vars

\* Webhook delivery: POST /v1/webhooks/:id/test, which calls trigger with
\* 'message.sent', the webhook worker, and a subscription that is switched off.
WebhookNext ==
    \/ \E projectId \in Projects, data \in TriggerData :
          TriggerStart(projectId, "message.sent", data)
    \/ TriggerAdd
    \/ DeactivateWebhook("w1")
    \/ \E j \in 1..Len(webhookJobs) : WhLease(j)
    \/ \E j \in 1..Len(webhookJobs) : WhPromote(j)
    \/ \E j \in 1..Len(webhookJobs) : WhFindWebhook(j)
    \/ \E j \in 1..Len(webhookJobs) : WhFetch(j)
    \/ \E j \in 1..Len(webhookJobs) : WhRecordDelivery(j)
    \/ \E j \in 1..Len(webhookJobs) : WhUpdateSuccess(j)
    \/ \E j \in 1..Len(webhookJobs) : WhUpdateFail(j)
    \/ \E j \in 1..Len(webhookJobs) : WhCatchRecord(j)
    \/ \E j \in 1..Len(webhookJobs) : WhCatchUpdate(j)

WebhookSpec == Init /\ [][WebhookNext]_vars

\* Webhook delivery while subscription w1 is switched off or deleted.
DropNext ==
    \/ \E data \in TriggerData : TriggerStart("pA", "message.sent", data)
    \/ TriggerAdd
    \/ DeactivateWebhook("w1")
    \/ DeleteWebhook("w1")
    \/ \E j \in 1..Len(webhookJobs) : WhLease(j)
    \/ \E j \in 1..Len(webhookJobs) : WhPromote(j)
    \/ \E j \in 1..Len(webhookJobs) : WhFindWebhook(j)
    \/ \E j \in 1..Len(webhookJobs) : WhFetch(j)
    \/ \E j \in 1..Len(webhookJobs) : WhRecordDelivery(j)
    \/ \E j \in 1..Len(webhookJobs) : WhUpdateSuccess(j)
    \/ \E j \in 1..Len(webhookJobs) : WhUpdateFail(j)
    \/ \E j \in 1..Len(webhookJobs) : WhCatchRecord(j)
    \/ \E j \in 1..Len(webhookJobs) : WhCatchUpdate(j)

DropSpec == Init /\ [][DropNext]_vars

\* The API alone: concurrent calls of POST /v1/send by two projects, and time.
SendRequests ==
    Requests({<<"r1">>, <<"r1", "r2">>, <<"r2", "r1">>}, {NoKey, "k1"}, {NoTemplate}, {TRUE})

SendNext ==
    \/ \E c \in Callers, projectId \in Projects, request \in SendRequests :
          /\ SendsStarted < MaxSends
          /\ SendEmail(c, projectId, request)
    \/ \E c \in Callers : SendSteps(c) \/ SendCreateMessage(c)
    \/ Tick

SendSpec == Init /\ [][SendNext]_vars

\* The API path and the worker when the database may fail to run the
\* suppression upsert.
SuppressFaultNext ==
    \/ ApiAccept
    \/ Deliver
    \/ \E j \in 1..Len(jobs) : ProcessSuppressRaises(j)

SuppressFaultSpec == Init /\ [][SuppressFaultNext]_vars

\* An earlier POST /v1/send of project pA with key k1 was answered at time 0:
\* its Message row, QUEUED event, job and idempotency entry exist.
ExpiryInit ==
    /\ messages = <<NewMessage("pA", <<"r1">>, "k1", << >>)>>
    /\ events = [m \in MessageIds |->
                    IF m = 1 THEN <<[type |-> "QUEUED", payload |-> [source |-> "api"]]>>
                    ELSE << >>]
    /\ suppressions \in InitialSuppressions
    /\ idempotencyKeys = {[key |-> "k1", scope |-> sendScope("pA"),
                           response |-> [messageId |-> 1, status |-> "QUEUED"],
                           expiresAt |-> IDEMPOTENCY_TTL_MS]}
    /\ jobs = <<NewJob(<<"send", 1>>, 1, "pA", <<"r1">>, DefaultJobAttempts, BackoffDelayMs)>>
    /\ transportLog = [m \in MessageIds |-> << >>]
    /\ rateLimits = [p \in Projects |-> IF p = "pA" THEN <<0>> ELSE << >>]
    /\ now = 0
    /\ api = [c \in Callers |-> IdleCall]
    /\ responses = << >>
    /\ webhooks = WebhookRows
    /\ webhookDeliveries = [j \in 1..MaxWebhookJobs |-> << >>]
    /\ webhookJobs = << >>
    /\ trig = IdleTrigger
    /\ util = NoCall
    /\ session = NewSession
    /\ smtpReply = Reply("none", TRUE, "")

\* Later calls of POST /v1/send with key k1, by either project, and time.
ExpiryRequests == Requests({<<"r1">>}, {"k1"}, {NoTemplate}, {TRUE})

ExpiryNext ==
    \/ \E c \in Callers, projectId \in Projects, request \in ExpiryRequests :
          /\ SendsStarted < MaxSends
          /\ SendEmail(c, projectId, request)
    \/ \E c \in Callers : SendSteps(c) \/ SendCreateMessage(c)
    \/ Tick

ExpirySpec == ExpiryInit /\ [][ExpiryNext]_vars

\* Two calls of trigger('pA', 'message.sent', data) have returned: the queue
\* holds two jobs for subscription w1.
ConcurrentCall == [projectId |-> "pA", eventType |-> "message.sent",
                   activeAtCall |-> {w \in WebhookIds : WebhookRows[w].active}]

ConcurrentInit ==
    /\ messages = << >>
    /\ events = [m \in MessageIds |-> << >>]
    /\ suppressions \in InitialSuppressions
    /\ idempotencyKeys = {}
    /\ jobs = << >>
    /\ transportLog = [m \in MessageIds |-> << >>]
    /\ rateLimits = [p \in Projects |-> << >>]
    /\ now = 0
    /\ api = [c \in Callers |-> IdleCall]
    /\ responses = << >>
    /\ webhooks = WebhookRows
    /\ webhookDeliveries = [j \in 1..MaxWebhookJobs |-> << >>]
    /\ webhookJobs = <<NewWebhookJob("w1", "message.sent", 0, 1),
                       NewWebhookJob("w1", "message.sent", 0, 2)>>
    /\ trig = [IdleTrigger EXCEPT !.calls = <<ConcurrentCall, ConcurrentCall>>]
    /\ util = NoCall
    /\ session = NewSession
    /\ smtpReply = Reply("none", TRUE, "")

\* The webhook worker, concurrency 20, on the two jobs; the endpoint answers
\* each request with 200.
ConcurrentNext ==
    \/ \E j \in 1..Len(webhookJobs) : WhLease(j)
    \/ \E j \in 1..Len(webhookJobs) : WhFindWebhook(j)
    \/ \E j \in 1..Len(webhookJobs) : WhFetch(j) /\ ok(webhookJobs'[j].status)
    \/ \E j \in 1..Len(webhookJobs) : WhRecordDelivery(j)
    \/ \E j \in 1..Len(webhookJobs) : WhUpdateSuccess(j)
    \/ Tick

ConcurrentSpec == ConcurrentInit /\ [][ConcurrentNext]_vars

\* Attempts of an API job that end with a retry, at the times of the clock,
\* for every value of the jitter.
RetryTimeNext ==
    \E attempts \in 1..(DefaultJobAttempts - 1), k \in 0..MaxTicks, jitter \in 0..(JitterRange - 1) :
        ScheduleRetry(attempts, k * TickMs, jitter)

RetryTimeSpec == Init /\ [][RetryTimeNext]_vars

\* The API path and the worker when the database may reject a write that
\* follows the transport's acceptance.
WriteFaultNext ==
    \/ ApiAccept
    \/ Deliver
    \/ \E j \in 1..Len(jobs) : ProcessWriteRaises(j)

WriteFaultSpec == Init /\ [][WriteFaultNext]_vars

\* The id of a job's data that is missing or references no Message row.
NoMessageId == 0

\* A job of the API path whose Message row is gone: messages are deleted with
\* their project (messages_project_id_fkey, ON DELETE CASCADE).
OrphanJob == NewJob(<<"send", NoMessageId>>, NoMessageId, "pA", <<"r1">>,
                    DefaultJobAttempts, BackoffDelayMs)

\* The queue holds the orphan job when the run begins.
OrphanInit ==
    /\ messages = << >>
    /\ events = [m \in MessageIds |-> << >>]
    /\ suppressions \in InitialSuppressions
    /\ idempotencyKeys = {}
    /\ jobs = <<OrphanJob>>
    /\ transportLog = [m \in MessageIds |-> << >>]
    /\ rateLimits = [p \in Projects |-> << >>]
    /\ now = 0
    /\ api = [c \in Callers |-> IdleCall]
    /\ responses = << >>
    /\ webhooks = WebhookRows
    /\ webhookDeliveries = [j \in 1..MaxWebhookJobs |-> << >>]
    /\ webhookJobs = << >>
    /\ trig = IdleTrigger
    /\ util = NoCall
    /\ session = NewSession
    /\ smtpReply = Reply("none", TRUE, "")

\* The API path and the worker, with the orphan job in the queue.
OrphanNext == ApiAccept \/ Deliver

OrphanSpec == OrphanInit /\ [][OrphanNext]_vars

\* One SMTP connection whose client tries every username and password and
\* goes on to send mail; no worker.
AuthNext ==
    \/ \E username \in Usernames, password \in Passwords : handleAuth(username, password)
    \/ handleMailFrom("from1")
    \/ \E address \in Emails : handleRcptTo(address)
    \/ RoomForMessage /\ handleData
    \/ DataSteps
    \/ DataCreateMessage

AuthSpec == Init /\ [][AuthNext]_vars

\* One SMTP connection of project pA that sends several messages, one
\* transaction after the other; no worker.
MaxRelayMessages == 2

RelayAgainNext ==
    \/ handleAuth("pA", "sA")
    \/ handleMailFrom("from1")
    \/ \E address \in Emails : handleRcptTo(address)
    \/ Len(messages) < MaxRelayMessages /\ handleData
    \/ DataSteps
    \/ DataCreateMessage

RelayAgainSpec == Init /\ [][RelayAgainNext]_vars

\* calculateBackoff for an attempt and then for the next one, each call with
\* its own jitter.
BackoffNext ==
    \/ \E attempt \in 0..MaxBackoffAttempt, baseDelay \in BaseDelays,
          maxDelay \in MaxDelays, jitter \in Jitters :
             CallBackoff(attempt, baseDelay, maxDelay, jitter)
    \/ \E jitter \in Jitters : CallBackoffNext(jitter)

BackoffSpec == Init /\ [][BackoffNext]_vars

\* renderTemplate for every template text and every set of variables.
RenderNext ==
    \E template \in TemplateTexts, variables \in VariableSets : CallRender(template, variables)

RenderSpec == Init /\ [][RenderNext]_vars

\* Signing and verifying: every payload and secret of the sender against every
\* payload and secret of the receiver.
SignNext ==
    \/ \E payload \in Payloads, secret \in Secrets : SignPayload(payload, secret)
    \/ \E payload2 \in Payloads, secret2 \in Secrets : VerifyPayload(payload2, secret2)

SignSpec == Init /\ [][SignNext]_vars

(* ------------------------------ claims -------------------------------- *)
JobIds == 1..Len(jobs)

\* The queue is done with the job: it will not hand it to a worker again.
Finished(j) == jobs[j].state \in {"completed", "failed"}

Count(log, type) == Cardinality({i \in 1..Len(log) : log[i].type = type})

TypesOf(log) == [i \in 1..Len(log) |-> log[i].type]

\* The events the worker wrote for the message.
WorkerEvents(m) == SelectSeq(events[m], LAMBDA e : e.type # "QUEUED")

SomeAccepted(log) == \E k \in 1..Len(log) : log[k].accepted

TerminalStatuses == {"DELIVERED", "FAILED"}

\* C1: every accepted message (API or SMTP relay) ends DELIVERED or FAILED;
\* none stays QUEUED, PROCESSING or RETRYING forever. As a statement a finite
\* run refutes: once the queue is done with a message's job (completed or
\* failed, never handed out again), the message is DELIVERED or FAILED.
C1_FinishedJobMessageTerminal ==
    \A j \in JobIds :
        Finished(j) => messages[jobs[j].messageId].status \in TerminalStatuses

AllowedTransitions == {
    <<"QUEUED", "PROCESSING">>, <<"PROCESSING", "SENT">>, <<"SENT", "DELIVERED">>,
    <<"PROCESSING", "RETRYING">>, <<"RETRYING", "PROCESSING">>,
    <<"PROCESSING", "FAILED">> }

\* C2: every change of a message's status is a transition of the state
\* machine QUEUED -> PROCESSING -> {SENT -> DELIVERED | RETRYING -> PROCESSING
\* | FAILED}; in particular a DELIVERED or FAILED message never changes
\* status, also when the queue hands its job to a worker again.
C2_OnlyStateMachineTransitions ==
    [][\A m \in 1..Len(messages) :
          messages'[m].status # messages[m].status
              => <<messages[m].status, messages'[m].status>> \in AllowedTransitions]_vars

\* C3: when the transport accepts the message on some attempt, the attempt
\* ends with the message DELIVERED, with exactly one SENT event and then
\* exactly one DELIVERED event, and the job completed: the accepting call is
\* the message's last transport call.
C3_AcceptedAttemptDelivers ==
    \A j \in JobIds :
        LET m == jobs[j].messageId
            log == transportLog[m]
            ev == events[m]
        IN  (jobs[j].state # "active" /\ SomeAccepted(log)) =>
                /\ jobs[j].state = "completed"
                /\ messages[m].status = "DELIVERED"
                /\ log[Len(log)].accepted
                /\ Cardinality({k \in 1..Len(log) : log[k].accepted}) = 1
                /\ Count(ev, "SENT") = 1
                /\ Count(ev, "DELIVERED") = 1
                /\ ev[Len(ev) - 1].type = "SENT"
                /\ ev[Len(ev)].type = "DELIVERED"

\* C3 witness: a job completed by an acceptance on its second attempt.
C3_Witness ==
    \E j \in JobIds :
        LET log == transportLog[jobs[j].messageId]
        IN  /\ jobs[j].state = "completed"
            /\ Len(log) = 2
            /\ ~log[1].accepted
            /\ log[2].accepted

\* The event types of a job that failed on each of its M attempts.
AllFailedEvents(M) == [i \in 1..M |-> IF i < M THEN "RETRY_SCHEDULED" ELSE "FAILED"]

\* C4: when the transport fails on every attempt of a job with max attempts
\* M, the transport is called exactly M times, the worker's events are M-1
\* RETRY_SCHEDULED and then one FAILED, and the message ends FAILED; no
\* message has more than M transport calls.
C4_AllAttemptsFail ==
    \A j \in JobIds :
        LET m == jobs[j].messageId
            log == transportLog[m]
            M == maxAttemptsOf(jobs[j])
        IN  /\ Len(log) <= M
            /\ (Finished(j) /\ Len(log) > 0 /\ ~SomeAccepted(log)) =>
                   /\ Len(log) = M
                   /\ TypesOf(WorkerEvents(m)) = AllFailedEvents(M)
                   /\ messages[m].status = "FAILED"

\* C5: a message that is FAILED has exactly one FAILED event, and the
\* attempts of the event's payload equal the max attempts of its job.
C5_OneFailedEventWithMaxAttempts ==
    \A j \in JobIds :
        LET m == jobs[j].messageId
            ev == events[m]
        IN  /\ Count(ev, "FAILED") <= 1
            /\ \A i \in 1..Len(ev) :
                   ev[i].type = "FAILED" => ev[i].payload.attempts = maxAttemptsOf(jobs[j])
            /\ (messages[m].status = "FAILED" /\ jobs[j].state # "active")
                   => Count(ev, "FAILED") = 1

\* C5 witness: a job that ended with its message FAILED and the event written.
C5_Witness ==
    \E j \in JobIds :
        /\ Finished(j)
        /\ messages[jobs[j].messageId].status = "FAILED"
        /\ Count(events[jobs[j].messageId], "FAILED") = 1

\* What the relay has written: its Message rows, QUEUED events and jobs.
RelayFootprint ==
    << {m \in 1..Len(messages) : messages[m].tags = <<"smtp-relay">>},
       {m \in MessageIds : \E i \in 1..Len(events[m]) :
            events[m][i].type = "QUEUED" /\ events[m][i].payload.source = "smtp-relay"},
       {j \in JobIds : jobs[j].name[1] = "smtp"} >>

DataRejected == Reply("DATA", FALSE, "Recipient is suppressed")

\* C10: in the SMTP relay, when a recipient of the transaction had a
\* suppression row in the authenticated project as DATA arrived, no step
\* creates a relay Message row, QUEUED event or job while the transaction is
\* handled, and the transaction ends with DATA rejected.
C10_SuppressedRecipientRejectsData ==
    [][(session.pc # "ready" /\ session.suppressedAtData) =>
          /\ RelayFootprint' = RelayFootprint
          /\ session'.pc \in {"ready", "suppression"}
          /\ session'.pc = "ready" => smtpReply' = DataRejected]_vars

\* C10 witness: DATA was rejected for a transaction whose first recipient is
\* not suppressed and whose second recipient is.
C10_Witness ==
    /\ smtpReply = DataRejected
    /\ session.pc = "ready"
    /\ session.suppressedAtData
    /\ Len(session.envelopeTo) = 2
    /\ ~isSuppressed(session.projectId, session.envelopeTo[1])
    /\ isSuppressed(session.projectId, session.envelopeTo[2])

ResponseIds == 1..Len(responses)

Keyed(i) == responses[i].idempotencyKey # NoKey

SameKey(i, k) ==
    /\ responses[i].projectId = responses[k].projectId
    /\ responses[i].idempotencyKey = responses[k].idempotencyKey

\* Response k is of a keyed call that created a Message row and stored its
\* response: the idempotency record of its key expires at responses[k].at
\* plus the TTL.
StoredFirst(k) == Keyed(k) /\ responses[k].success /\ responses[k].created # 0

\* Call i started after call k had returned, and returned within the TTL of
\* the record that call k stored.
ReplayOf(i, k) ==
    /\ k < i
    /\ StoredFirst(k)
    /\ SameKey(i, k)
    /\ responses[i].seen >= k
    /\ responses[i].at <= responses[k].at + IDEMPOTENCY_TTL_MS

\* Each Message row has at most one QUEUED event and at most one job: events
\* and jobs are written only by the call that created the row.
OneEventAndJobPerMessage ==
    \A m \in MessageIds :
        /\ Count(events[m], "QUEUED") <= 1
        /\ Cardinality({j \in JobIds : jobs[j].messageId = m}) <= 1
        /\ m > Len(messages) => events[m] = << >>

\* C6 as stated: a send made after an earlier send with the same project and
\* key succeeded, and within the TTL, returns the first call's data and
\* creates no Message row, Event or job.
C6_ReplayReturnsFirstData ==
    \A i \in ResponseIds, k \in ResponseIds :
        ReplayOf(i, k) =>
            /\ responses[i].success
            /\ responses[i].data = responses[k].data
            /\ responses[i].created = 0

\* C6 amended: such a send either is refused by the rate limiter, which
\* runs before the idempotency lookup, or returns the first call's data; in
\* both cases it creates no Message row, Event or job.
C6_ReplayReturnsFirstDataUnlessRateLimited ==
    /\ OneEventAndJobPerMessage
    /\ \A i \in ResponseIds, k \in ResponseIds :
           ReplayOf(i, k) =>
               /\ responses[i].created = 0
               /\ \/ responses[i].code = "RATE_LIMIT_EXCEEDED"
                  \/ /\ responses[i].success
                     /\ responses[i].data = responses[k].data

\* C6 witness: a replay, with another recipient list, answered with the
\* first call's data.
C6_Witness ==
    \E i \in ResponseIds, k \in ResponseIds :
        /\ ReplayOf(i, k)
        /\ responses[i].success
        /\ responses[i].data = responses[k].data
        /\ responses[i].to # responses[k].to
        /\ responses[i].at > responses[k].at

\* Calls i and k ran concurrently: neither started after the other returned.
Concurrent(i, k) == i < k /\ responses[k].seen < i

Admitted(i) == responses[i].code # "RATE_LIMIT_EXCEEDED"

\* C7: two send calls with the same key and project that run concurrently
\* (and pass the rate limiter) produce exactly one Message row and one job,
\* and both return the same successful response.
C7_ConcurrentSameKeyOneMessage ==
    \A i \in ResponseIds, k \in ResponseIds :
        (Concurrent(i, k) /\ Keyed(i) /\ SameKey(i, k) /\ Admitted(i) /\ Admitted(k)
            /\ responses[i].code # "RECIPIENT_SUPPRESSED"
            /\ responses[k].code # "RECIPIENT_SUPPRESSED") =>
            /\ responses[i].success /\ responses[k].success
            /\ responses[i].data = responses[k].data
            /\ Cardinality({responses[i].created, responses[k].created} \ {0}) = 1

\* No other call with the key of call i ran concurrently with it.
Alone(i) ==
    \A k \in ResponseIds :
        responses[k].idempotencyKey = responses[i].idempotencyKey
            => ~Concurrent(i, k) /\ ~Concurrent(k, i)

\* C8: idempotency keys are scoped per project: a keyed send that found no
\* entry of its own project, and so created a Message row, succeeds and
\* stores its response, also when another project has an entry for the key.
C8_KeysScopedPerProject ==
    \A i \in ResponseIds :
        (Keyed(i) /\ Alone(i) /\ responses[i].created # 0) =>
            /\ responses[i].success
            /\ now <= responses[i].at + IDEMPOTENCY_TTL_MS =>
                   \E r \in idempotencyKeys :
                       /\ r.key = responses[i].idempotencyKey
                       /\ r.scope = sendScope(responses[i].projectId)
                       /\ r.response = responses[i].data

SuppressedCall(projectId, to) == anySuppressed(projectId, to)

\* C9 as stated: a send whose recipient list contains an address with a
\* suppression row in the project returns RECIPIENT_SUPPRESSED and creates
\* no Message row, Event or job.
C9_SuppressedRecipientRejected ==
    \A i \in ResponseIds :
        SuppressedCall(responses[i].projectId, responses[i].to) =>
            /\ responses[i].code = "RECIPIENT_SUPPRESSED"
            /\ responses[i].created = 0

\* The response is the cached one of an earlier call with the same key.
FromCache(i) ==
    /\ responses[i].success
    /\ \E k \in 1..(i - 1) : StoredFirst(k) /\ SameKey(i, k)
                               /\ responses[i].data = responses[k].data

\* C9 amended: such a send returns RECIPIENT_SUPPRESSED unless the rate
\* limiter refuses it or the idempotency lookup answers it from the cache,
\* both of which run before the suppression lookup; in every case it creates
\* no Message row, Event or job, whatever the position of the address.
C9_SuppressedRecipientNeverCreates ==
    /\ OneEventAndJobPerMessage
    /\ \A i \in ResponseIds :
           SuppressedCall(responses[i].projectId, responses[i].to) =>
               /\ responses[i].created = 0
               /\ \/ responses[i].code = "RECIPIENT_SUPPRESSED"
                  \/ responses[i].code = "RATE_LIMIT_EXCEEDED"
                  \/ FromCache(i)
    /\ \A c \in Callers :
           api[c].pc \in {"template", "create", "event", "enqueue", "store"}
               => ~SuppressedCall(api[c].projectId, api[c].to)

\* C9 witness: a send rejected for the second address of its list, the first
\* one not suppressed.
C9_Witness ==
    \E i \in ResponseIds :
        /\ responses[i].code = "RECIPIENT_SUPPRESSED"
        /\ Len(responses[i].to) = 2
        /\ ~isSuppressed(responses[i].projectId, responses[i].to[1])
        /\ isSuppressed(responses[i].projectId, responses[i].to[2])
        /\ responses[i].created = 0

\* Some recipient of message m has a suppression row in the message's project.
SuppressedMessage(m) == anySuppressed(messages[m].projectId, messages[m].toEmail)

\* C11: while a suppression row exists for (project P, address r), the
\* worker dispatches no message of P addressed to r to the transport, also
\* when the message was queued before the row was created.
C11_NoDispatchToSuppressed ==
    [][\A m \in 1..Len(messages) :
          transportLog'[m] # transportLog[m] => ~SuppressedMessage(m)]_vars

\* The BOUNCE rows of the pair (the project of message m, address email).
BounceRows(m, email) ==
    {s \in findSuppression(messages[m].projectId, email) : s.reason = "BOUNCE"}

\* The transport's error texts that contain one of the six indicators when
\* case is ignored ("550 User Unknown" contains "user unknown").
HardBounceTexts == {ErrUserUnknown}

\* C12: when a message is FAILED with a hard-bounce error text and its job
\* has finished, a suppression row with reason BOUNCE exists for (the
\* message's project, the first recipient); and every step that creates or
\* changes a suppression row is the step of a job whose error is a hard bounce.
C12_HardBounceSuppresses ==
    /\ [](\A j \in JobIds :
            LET m == jobs[j].messageId
            IN  (Finished(j) /\ messages[m].status = "FAILED"
                    /\ messages[m].error \in HardBounceTexts)
                    => BounceRows(m, jobs[j].to[1]) # {})
    /\ [][suppressions' # suppressions =>
            \E j \in JobIds :
                /\ AtPc(j, "suppress")
                /\ jobs'[j].state # "active"
                /\ jobs[j].error \in HardBounceTexts
                /\ messages[jobs[j].messageId].status = "FAILED"]_vars

\* C12 witness: a job finished with its message FAILED by the error
\* "550 User Unknown", and the row of its first recipient records the error.
C12_Witness ==
    \E j \in JobIds :
        LET m == jobs[j].messageId
        IN  /\ Finished(j)
            /\ messages[m].status = "FAILED"
            /\ messages[m].error = ErrUserUnknown
            /\ \E s \in BounceRows(m, jobs[j].to[1]) : s.metadata = ErrUserUnknown

\* C13: under every interleaving of hard bounces for the same (project,
\* email) there is at most one suppression row for the pair, and a bounce
\* for a pair that has a row changes that row and adds none.
C13_OneSuppressionRowPerPair ==
    /\ [](\A s1 \in suppressions, s2 \in suppressions :
            (s1.projectId = s2.projectId /\ s1.email = s2.email) => s1 = s2)
    /\ [][\A j \in JobIds :
            (AtPc(j, "suppress") /\ jobs'[j].state # "active"
                /\ isSuppressed(jobs[j].projectId, jobs[j].to[1]))
                => /\ Cardinality(suppressions') = Cardinality(suppressions)
                   /\ \E s \in findSuppression(jobs[j].projectId, jobs[j].to[1]) :
                          [s EXCEPT !.metadata = jobs[j].error] \in suppressions']_vars

\* C13 witness: two jobs whose messages hard-bounced for the same pair, each
\* after three attempts, have both finished, and the pair has its row.
C13_Witness ==
    \E j1 \in JobIds, j2 \in JobIds :
        /\ j1 # j2
        /\ Finished(j1) /\ Finished(j2)
        /\ jobs[j1].to[1] = jobs[j2].to[1]
        /\ jobs[j1].error = ErrUserUnknown /\ jobs[j2].error = ErrUserUnknown
        /\ messages[jobs[j1].messageId].status = "FAILED"
        /\ messages[jobs[j2].messageId].status = "FAILED"
        /\ Len(transportLog[jobs[j1].messageId]) = 3
        /\ Len(transportLog[jobs[j2].messageId]) = 3
        /\ isSuppressed(jobs[j1].projectId, jobs[j1].to[1])

\* The error codes of a send call that is refused before message.create.
RefusalCodes == {"VALIDATION_ERROR", "RATE_LIMIT_EXCEEDED", "RECIPIENT_SUPPRESSED",
                 "TEMPLATE_NOT_FOUND", "MISSING_CONTENT"}

\* The Message rows created by the calls that have returned or are running.
CreatedByCalls ==
    ({responses[i].created : i \in ResponseIds}
        \cup {api[c].messageId : c \in {k \in Callers : api[k].pc # "idle"}}) \ {0}

\* C14: a send call that returns a validation error, RATE_LIMIT_EXCEEDED,
\* RECIPIENT_SUPPRESSED, TEMPLATE_NOT_FOUND or MISSING_CONTENT has changed
\* neither the Message table, nor the Event table, nor the send-email queue:
\* it created no row, every row and job belongs to a Message created by
\* another call, and the step that returns the error changes none of them.
C14_RefusedSendChangesNothing ==
    /\ [](/\ \A i \in ResponseIds :
                responses[i].code \in RefusalCodes =>
                    ~responses[i].success /\ responses[i].created = 0
          /\ 1..Len(messages) = CreatedByCalls
          /\ \A m \in MessageIds : events[m] # << >> => m \in CreatedByCalls
          /\ \A j \in JobIds : jobs[j].messageId \in CreatedByCalls)
    /\ [][(Len(responses') > Len(responses)
              /\ responses'[Len(responses')].code \in RefusalCodes)
             => UNCHANGED <<messages, events, jobs>>]_vars

\* C14 witness: a call refused for a missing template and a call refused
\* for missing content have returned, and no table has a row.
C14_Witness ==
    /\ \E i \in ResponseIds : responses[i].code = "TEMPLATE_NOT_FOUND"
    /\ \E i \in ResponseIds : responses[i].code = "MISSING_CONTENT"
    /\ messages = << >>
    /\ jobs = << >>
    /\ \A m \in MessageIds : events[m] = << >>

WebhookJobIds == 1..Len(webhookJobs)

\* The webhook event type of a terminal message status.
TerminalEventType(status) ==
    IF status = "DELIVERED" THEN "message.delivered" ELSE "message.failed"

\* C15: when the worker has brought a message to DELIVERED or FAILED, a
\* webhook job for the message exists for every active subscription of the
\* project to the corresponding event type.
C15_TerminalMessageNotifiesSubscribers ==
    \A j \in JobIds :
        LET m == jobs[j].messageId
            eventType == TerminalEventType(messages[m].status)
        IN  (Finished(j) /\ messages[m].status \in TerminalStatuses) =>
                \A w \in findManyWebhooks(messages[m].projectId, eventType) :
                    \E k \in WebhookJobIds :
                        /\ webhookJobs[k].webhookId = w
                        /\ webhookJobs[k].eventType = eventType
                        /\ webhookJobs[k].data = m

\* The jobs that call n of trigger added for subscription w.
JobsOfCall(n, w) ==
    {k \in WebhookJobIds : webhookJobs[k].call = n /\ webhookJobs[k].webhookId = w}

\* The subscriptions that call n of trigger has to notify: those of its
\* project that were active at the lookup and list its event type.
Subscribers(n) ==
    {w \in WebhookIds :
        /\ webhooks[w].projectId = trig.calls[n].projectId
        /\ w \in trig.calls[n].activeAtCall
        /\ trig.calls[n].eventType \in webhooks[w].eventTypes}

Returned(n) == n < Len(trig.calls) \/ trig.pc = "idle"

\* C16: a call of trigger(projectId, eventType, data) that has returned has
\* added exactly one webhook job for each subscription of projectId that was
\* active and lists eventType, each with 5 attempts and exponential backoff
\* of 5000 ms, and no job for any other subscription; a call never adds two
\* jobs for a subscription.
C16_TriggerOneJobPerSubscriber ==
    \A n \in 1..Len(trig.calls), w \in WebhookIds :
        /\ Returned(n) =>
               Cardinality(JobsOfCall(n, w)) = IF w \in Subscribers(n) THEN 1 ELSE 0
        /\ Cardinality(JobsOfCall(n, w)) <= 1
        /\ w \notin Subscribers(n) => JobsOfCall(n, w) = {}
        /\ \A k \in JobsOfCall(n, w) :
               /\ webhookJobs[k].attempts = 5
               /\ webhookJobs[k].backoff = [type |-> "exponential", delay |-> 5000]
               /\ webhookJobs[k].eventType = trig.calls[n].eventType

\* C16 witness: a call for an event type with two subscribers in the project,
\* which also has an inactive subscription to it, returned with two jobs.
C16_Witness ==
    /\ Len(trig.calls) >= 1
    /\ Returned(1)
    /\ Cardinality(Subscribers(1)) = 2
    /\ Len(webhookJobs) = 2
    /\ \E w \in WebhookIds :
           /\ webhooks[w].projectId = trig.calls[1].projectId
           /\ w \notin trig.calls[1].activeAtCall
           /\ trig.calls[1].eventType \in webhooks[w].eventTypes

\* The attempts of job k in which the processor called the endpoint.
ProcessedAttempts(k) ==
    {a \in 1..Len(webhookJobs[k].outcomes) : webhookJobs[k].outcomes[a] # "skipped"}

RowsOfAttempt(k, a) ==
    {i \in 1..Len(webhookDeliveries[k]) : webhookDeliveries[k][i].attempt = a}

\* C17: each processed attempt of a webhook job for an active subscription
\* creates exactly one WebhookDelivery row, whether the endpoint answers 2xx,
\* answers non-2xx, or the request fails.
C17_OneDeliveryRowPerAttempt ==
    \A k \in WebhookJobIds :
        webhookJobs[k].state # "active" =>
            \A a \in ProcessedAttempts(k) : Cardinality(RowsOfAttempt(k, a)) = 1

\* The attempts at subscription w that ended with one of the outcomes.
AttemptsAt(w, outcomes) ==
    {<<k, a>> \in WebhookJobIds \X (1..WebhookAttempts) :
        /\ webhookJobs[k].webhookId = w
        /\ a <= Len(webhookJobs[k].outcomes)
        /\ webhookJobs[k].outcomes[a] \in outcomes}

\* C18: each processed attempt changes the subscription's counters by one
\* increment: successCount + 1 on 2xx, failCount + 1 on non-2xx or on a
\* transport error, and lastTriggeredAt is set; so with no job in process,
\* successCount is the number of 2xx attempts and failCount the number of
\* failed attempts.
C18_OneCounterIncrementPerAttempt ==
    ActiveWebhookJobs = {} =>
        \A w \in WebhookIds :
            /\ webhooks[w].successCount = Cardinality(AttemptsAt(w, {"2xx"}))
            /\ webhooks[w].failCount = Cardinality(AttemptsAt(w, {"non2xx", "error"}))
            /\ AttemptsAt(w, {"2xx", "non2xx", "error"}) # {}
                   => webhooks[w].lastTriggeredAt # NullTime

FailureOutcomes == {"non2xx", "error"}

\* C19: a webhook job whose attempt ends in a non-2xx response or a
\* transport error goes back to the queue and is tried again, for at most 5
\* attempts in total, after which it is failed and not attempted again; an
\* attempt answered with 2xx completes the job and is its last.
C19_WebhookRetriedUpToFiveAttempts ==
    \A k \in WebhookJobIds :
        LET job == webhookJobs[k]
            n == Len(job.outcomes)
        IN  /\ n <= 5
            /\ \A a \in 1..(n - 1) : job.outcomes[a] \in FailureOutcomes
            /\ job.state = "failed" =>
                   n = 5 /\ \A a \in 1..n : job.outcomes[a] \in FailureOutcomes
            /\ (job.state # "active" /\ n > 0) =>
                   CASE job.outcomes[n] \in {"2xx", "skipped"} -> job.state = "completed"
                     [] job.outcomes[n] \in FailureOutcomes /\ n < 5 ->
                            job.state \in {"delayed", "waiting"} /\ job.attemptsMade = n
                     [] OTHER -> job.state = "failed"

\* C19 witness: a job abandoned after five attempts, some answered non-2xx
\* and some failed in transport.
C19_Witness ==
    \E k \in WebhookJobIds :
        /\ webhookJobs[k].state = "failed"
        /\ webhookJobs[k].attemptsMade = 5
        /\ \E a \in 1..5 : webhookJobs[k].outcomes[a] = "non2xx"
        /\ \E a \in 1..5 : webhookJobs[k].outcomes[a] = "error"

\* C20: every WebhookDelivery row has a response status and no error, or an
\* error text with no response status and no response body.
C20_DeliveryRowStatusOrError ==
    \A k \in 1..MaxWebhookJobs :
        \A i \in 1..Len(webhookDeliveries[k]) :
            LET row == webhookDeliveries[k][i]
            IN  \/ row.responseStatus # NullStatus /\ row.error = NullText
                \/ /\ row.error # NullText
                   /\ row.responseStatus = NullStatus
                   /\ row.responseBody = NullText

\* C20 witness: rows of the three kinds exist: a 2xx response, a non-2xx
\* response whose body could not be read, and a transport error.
C20_Witness ==
    \E k \in 1..MaxWebhookJobs :
        LET rows == webhookDeliveries[k]
        IN  /\ \E i \in 1..Len(rows) : rows[i].responseStatus = 200
            /\ \E i \in 1..Len(rows) :
                   rows[i].responseStatus = 500 /\ rows[i].responseBody = NullText
            /\ \E i \in 1..Len(rows) : rows[i].error = ErrFetchFailed

Verified == util.fn = "verify"

SameEncodedPayload(p, p2) ==
    /\ Len(p) = Len(p2)
    /\ \A i \in 1..Len(p) : p[i] = p2[i] \/ {p[i], p2[i]} \subseteq HiSurrogates

RECURSIVE StripTrailingNul(_)
StripTrailingNul(str) ==
    IF str # << >> /\ str[Len(str)] = NUL
    THEN StripTrailingNul(SubSeq(str, 1, Len(str) - 1))
    ELSE str

\* Two secrets of at most 64 bytes that differ only in trailing NULs.
SameHmacKey(s, s2) == StripTrailingNul(s) = StripTrailingNul(s2)

C22_GenericAuthError ==
    [][\A username \in Usernames \ {""}, password \in Passwords \ {""} :
          (handleAuth(username, password) /\ ~smtpReply'.ok)
              => smtpReply'.error = "Invalid credentials"]_vars

\* Project u exists and is ACTIVE, and a non-revoked key of u has the secret
\* k and the scope send:email.
Authorized(u, k) ==
    /\ \E project \in ProjectRows : project.id = u /\ project.status = "ACTIVE"
    /\ \E key \in ApiKeyRows :
           /\ key.projectId = u
           /\ ~key.revoked
           /\ key.secret = k
           /\ "send:email" \in key.scopes

\* C23: authentication with username u and password k succeeds if and only
\* if Authorized(u, k); a success binds the session to project u, a failure
\* leaves the session as it was.
C23_AuthSucceedsIffAuthorized ==
    [][\A u \in Usernames, k \in Passwords :
          handleAuth(u, k) =>
              /\ smtpReply'.ok <=> Authorized(u, k)
              /\ smtpReply'.ok => session'.projectId = u
              /\ ~smtpReply'.ok => session' = session]_vars

\* C23 witness: the connection authenticated as pB after it had authenticated
\* as pA and sent a message.
C23_Witness ==
    /\ smtpReply = Reply("AUTH", TRUE, "")
    /\ session.projectId = "pB"
    /\ \E m \in 1..Len(messages) : messages[m].projectId = "pA"

BackoffCalled == util.fn = "calculateBackoff"
BackoffCalledTwice == BackoffCalled /\ Len(util.result) = 2

\* base * 2^a of the first call
ExponentialDelay == util.args[2] * 2 ^ util.args[1]

\* C24 (as claimed): for every base delay, maximum delay, attempt a and pair
\* of jitter values, calculateBackoff(a + 1, base, max) >= calculateBackoff(a,
\* base, max).
C24_BackoffNonDecreasing ==
    BackoffCalledTwice => util.result[2] >= util.result[1]

\* C24 (amended): calculateBackoff(a + 1, base, max) >= calculateBackoff(a,
\* base, max) for every pair of jitter values whenever base * 2^a >= 1000,
\* the width of the jitter, and for every base when the second jitter is not
\* smaller than the first.
C24_BackoffNonDecreasingFromJitterRange ==
    (/\ BackoffCalledTwice
     /\ ExponentialDelay >= JitterRange \/ util.args[5] >= util.args[4])
        => util.result[2] >= util.result[1]

\* C24 witness: the second call drew the smaller jitter, neither call was
\* capped, and the delay grew.
C24_Witness ==
    /\ BackoffCalledTwice
    /\ ExponentialDelay >= JitterRange
    /\ util.args[5] < util.args[4]
    /\ util.result[2] < util.args[3]
    /\ util.result[2] > util.result[1]

\* C25: calculateBackoff(a, base, max) never exceeds max, is at least
\* base * 2^a whenever base * 2^a does not exceed max, and when it is below
\* max it is base * 2^a plus a jitter in [0, 1000).
C25_BackoffCappedExponential ==
    BackoffCalled =>
        /\ util.result[1] <= util.args[3]
        /\ (ExponentialDelay <= util.args[3]) => (util.result[1] >= ExponentialDelay)
        /\ (util.result[1] < util.args[3]) =>
               /\ util.result[1] - ExponentialDelay >= 0
               /\ util.result[1] - ExponentialDelay < JitterRange
               /\ util.result[1] - ExponentialDelay = util.args[4]

\* C25 witness: the exponential delay is below max and the jitter takes the
\* sum above it, so the result is max.
C25_Witness ==
    /\ BackoffCalled
    /\ ExponentialDelay < util.args[3]
    /\ ExponentialDelay + util.args[4] > util.args[3]
    /\ util.result[1] = util.args[3]

Rendered == util.fn = "renderTemplate"

\* The text that the claim describes, from position i of template t on: a
\* placeholder whose key has a value in the variables becomes that value, any
\* other placeholder and any other text stay as written.
RECURSIVE Substituted(_, _, _)
Substituted(t, variables, i) ==
    IF i > Len(t) THEN << >>
    ELSE LET n == PlaceholderAt(t, i)
             key == SubSeq(t, i + 2, i + n + 1)
         IN  IF n > 0 /\ key \in DOMAIN variables
             THEN String(variables[key]) \o Substituted(t, variables, i + n + 4)
             ELSE <<t[i]>> \o Substituted(t, variables, i + 1)

\* C26: renderTemplate replaces every {{key}} whose key has a value in the
\* variables by that value and leaves every other placeholder and all other
\* text as written.
C26_RenderSubstitutesKnownKeysOnly ==
    Rendered => util.result = Substituted(util.args[1], util.args[2], 1)

Orphan(j) == ~MessageExists(jobs[j].messageId)

\* C27: a job whose message id is missing or references no Message row is
\* dropped: it is never retried (no attempt is counted against it, it is
\* never put back to delayed or waiting), it does not end failed, and no
\* Event or Suppression row is written for it.
C27_OrphanJobDropped ==
    /\ [](\A j \in JobIds :
            Orphan(j) =>
                /\ jobs[j].attemptsMade = 0
                /\ jobs[j].state \in {"waiting", "active", "completed"})
    /\ [][\A j \in JobIds :
            (Orphan(j) /\ jobs'[j] # jobs[j])
                => events' = events /\ suppressions' = suppressions]_vars

\* C28: when the transport fails on attempt n and n is less than the job's
\* max attempts, the worker sets the message to RETRYING with the error text,
\* appends exactly one RETRY_SCHEDULED event with attempt = n, and fails the
\* job so that the queue schedules another attempt; on that attempt it
\* writes no FAILED event and no Suppression row, whatever the error text.
C28_FailedAttemptSchedulesRetry ==
    [][\A j \in JobIds :
          LET m == jobs[j].messageId
              n == attemptsOf(jobs[j])
              retrying == /\ jobs[j].error \in TransportErrors
                          /\ n < maxAttemptsOf(jobs[j])
                          /\ jobs'[j] # jobs[j]
          IN  /\ (AtPc(j, "catch") /\ retrying) =>
                     /\ messages'[m].status = "RETRYING"
                     /\ messages'[m].error = jobs[j].error
                     /\ jobs'[j].state = "active"
                     /\ events' = events
                     /\ suppressions' = suppressions
              /\ (AtPc(j, "eventRetry") /\ retrying) =>
                     /\ events'[m] = Append(events[m],
                            [type |-> "RETRY_SCHEDULED",
                             payload |-> [attempt |-> n, error |-> jobs[j].error]])
                     /\ messages'[m].status = "RETRYING"
                     /\ suppressions' = suppressions
                     /\ jobs'[j].attemptsMade = n
                     /\ jobs'[j].state \in {"delayed", "waiting"}]_vars

\* C29: on the final failed attempt the worker consumes the job: once the
\* FAILED event is written and the attempt is over, the job is completed,
\* not failed and not waiting for a retry, and the message is FAILED with
\* its one FAILED event; also when the Suppression upsert raised an error.
C29_FinalFailureConsumesJob ==
    \A j \in JobIds :
        LET m == jobs[j].messageId
        IN  (jobs[j].state # "active" /\ Count(events[m], "FAILED") > 0) =>
                /\ jobs[j].state = "completed"
                /\ messages[m].status = "FAILED"
                /\ Count(events[m], "FAILED") = 1

\* C30: a job enqueued by the SMTP relay carries the retry policy of a job
\* enqueued by the API send path (max attempts 3, backoff base 5000 ms), so
\* that the attempts the worker counts on, maxAttemptsOf, are the attempts
\* the queue grants.
C30_RelayJobsCarryApiRetryPolicy ==
    \A j \in JobIds :
        /\ jobs[j].attempts = DefaultJobAttempts
        /\ jobs[j].backoffDelay = BackoffDelayMs
        /\ maxAttemptsOf(jobs[j]) = jobs[j].attempts

\* The event type that records a transition to the status.
EventOfStatus(status) == IF status = "RETRYING" THEN "RETRY_SCHEDULED" ELSE status

\* The updates of message m to the status so far.
TransitionsTo(m, status) ==
    Cardinality({i \in 1..Len(messages[m].transitions) : messages[m].transitions[i] = status})

\* C31: whenever a job is not in the middle of an attempt, its message has
\* one SENT, DELIVERED, RETRY_SCHEDULED or FAILED event for each transition to
\* SENT, DELIVERED, RETRYING or FAILED, and no event of type PROCESSING.
C31_OneEventPerTransition ==
    \A j \in JobIds :
        LET m == jobs[j].messageId
        IN  (jobs[j].state # "active" /\ MessageExists(m)) =>
                /\ \A status \in {"SENT", "DELIVERED", "RETRYING", "FAILED"} :
                       Count(events[m], EventOfStatus(status)) = TransitionsTo(m, status)
                /\ Count(events[m], "PROCESSING") = 0

\* C31 witness: a job is completed whose message was retried once and then
\* sent and delivered: one event for each of the three transitions.
C31_Witness ==
    \E j \in JobIds :
        /\ jobs[j].state = "completed"
        /\ MessageExists(jobs[j].messageId)
        /\ messages[jobs[j].messageId].transitions
               = <<"PROCESSING", "RETRYING", "PROCESSING", "SENT", "DELIVERED">>
        /\ Count(events[jobs[j].messageId], "RETRY_SCHEDULED") = 1
        /\ Count(events[jobs[j].messageId], "SENT") = 1
        /\ Count(events[jobs[j].messageId], "DELIVERED") = 1

\* C39: a message that the transport has accepted is never dispatched again:
\* no call of the transport for a message follows an accepted call, also
\* when a status update or an event write after the acceptance fails.
C39_AcceptedMessageNotSentAgain ==
    \A m \in MessageIds :
        \A k \in 1..Len(transportLog[m]) :
            transportLog[m][k].accepted => k = Len(transportLog[m])

\* C32: the next-retry time recorded in RETRY_SCHEDULED of attempt n is the
\* time at which the queue makes the job available for attempt n + 1, up to
\* the jitter of less than one second.
C32_RecordedRetryTimeIsQueueRetryTime ==
    util.fn = "scheduleRetry" =>
        /\ util.result[1] >= util.result[2]
        /\ util.result[1] - util.result[2] < JitterRange

\* The jobs for subscription w whose attempt was answered 2xx and is over.
Delivered2xx(w) ==
    {j \in 1..Len(webhookJobs) :
        /\ webhookJobs[j].webhookId = w
        /\ webhookJobs[j].state = "completed"
        /\ webhookJobs[j].outcomes # << >>
        /\ webhookJobs[j].outcomes[Len(webhookJobs[j].outcomes)] = "2xx"}

\* C33: concurrent 2xx deliveries to one subscription lose no counter update:
\* after k attempts answered 2xx, successCount has grown by k and failCount
\* has not changed.
C33_NoLostSuccessCount ==
    \A w \in WebhookIds :
        /\ webhooks[w].successCount = WebhookRows[w].successCount + Cardinality(Delivered2xx(w))
        /\ webhooks[w].failCount = WebhookRows[w].failCount

\* C33 witness: two attempts for w1 that overlapped were both answered 2xx
\* and both are counted.
C33_Witness ==
    /\ Delivered2xx("w1") = {1, 2}
    /\ webhookJobs[1].concurrent \cup webhookJobs[2].concurrent # {}
    /\ webhooks["w1"].successCount = 2

\* C34: a send whose idempotency check meets an entry older than 24 hours
\* proceeds as a first send: the entry is deleted, and the send creates a
\* new Message and stores a new entry under the key. The answers to such
\* sends are successes with a new Message row, unless the recipient is
\* suppressed.
C34_ExpiredEntrySendStoresAnew ==
    \A i \in 1..Len(responses) :
        (responses[i].expired /\ responses[i].code # "RECIPIENT_SUPPRESSED") =>
            /\ responses[i].success
            /\ responses[i].created # 0
            /\ responses[i].data.messageId = responses[i].created

\* The subscription of job j does not exist or is inactive.
GoneOrInactive(j) ==
    \/ ~WebhookExists(webhookJobs[j].webhookId)
    \/ ~webhooks[webhookJobs[j].webhookId].active

\* C35: a webhook job that finds its subscription missing or inactive is
\* dropped: the attempt makes no HTTP request, writes no delivery row, leaves
\* the counters and lastTriggeredAt as they are, and completes the job, so
\* that the queue does not retry it.
C35_GoneOrInactiveJobDropped ==
    [][\A j \in 1..Len(webhookJobs) :
          (WhAtPc(j, "find") /\ GoneOrInactive(j) /\ webhookJobs'[j] # webhookJobs[j]) =>
              /\ webhookJobs'[j].state = "completed"
              /\ webhookJobs'[j].attemptsMade = webhookJobs[j].attemptsMade
              /\ webhookJobs'[j].outcomes = Append(webhookJobs[j].outcomes, "skipped")
              /\ UNCHANGED <<webhooks, webhookDeliveries>>]_vars

\* C35 witness: the job for w1 was dropped after w1 had been deleted.
C35_Witness ==
    /\ ~WebhookExists("w1")
    /\ \E j \in 1..Len(webhookJobs) :
          /\ webhookJobs[j].webhookId = "w1"
          /\ webhookJobs[j].state = "completed"
          /\ webhookJobs[j].outcomes[Len(webhookJobs[j].outcomes)] = "skipped"
          /\ webhookDeliveries[j] = << >>

\* C36: until an AUTH of the connection has succeeded, MAIL FROM, RCPT TO
\* and DATA are rejected: no transaction is open, no recipient is stored, and
\* the connection has created no Message row and no job.
C36_NoMailBeforeAuth ==
    session.projectId = NoProject =>
        /\ smtpReply.command \in {"MAIL", "RCPT", "DATA"} =>
               (~smtpReply.ok /\ smtpReply.error = "Not authenticated")
        /\ ~session.mailFrom
        /\ session.envelopeTo = << >>
        /\ session.pc = "ready"
        /\ messages = << >>
        /\ jobs = << >>

\* C36 witness: MAIL FROM on a connection that has not authenticated was
\* rejected.
C36_Witness ==
    /\ session.projectId = NoProject
    /\ smtpReply = Reply("MAIL", FALSE, "Not authenticated")

\* The times of the calls of checkLimit for the project that returned
\* allowed: true, one element per call (calls in progress and answered).
AllowedCalls(projectId) ==
    {<<"api", c, api[c].calledAt>> :
        c \in {d \in Callers : api[d].pc # "idle" /\ api[d].projectId = projectId}}
    \cup
    {<<"response", i, responses[i].calledAt>> :
        i \in {k \in 1..Len(responses) :
                  /\ responses[k].projectId = projectId
                  /\ responses[k].code \notin {"RATE_LIMIT_EXCEEDED", "VALIDATION_ERROR"}}}

OwnRecipients ==
    SubSeq(session.envelopeTo,
           Len(session.envelopeTo) - session.rcptTo + 1, Len(session.envelopeTo))

\* C38: the Message row of a relay transaction is addressed to the RCPT TO
\* addresses of that transaction and to no others: recipients of earlier
\* transactions of the connection are not carried over.
C38_MessageHasOwnRecipientsOnly ==
    session.pc \in {"event", "enqueue"} =>
        messages[session.messageId].toEmail = OwnRecipients

\* The WebhookDelivery rows of subscription w that the first j jobs wrote.
RECURSIVE DeliveryRows(_, _)
DeliveryRows(w, j) ==
    IF j = 0 THEN 0
    ELSE DeliveryRows(w, j - 1)
         + (IF webhookJobs[j].webhookId = w THEN Len(webhookDeliveries[j]) ELSE 0)

\* C40: whenever no webhook job is being processed, every subscription has
\* as many WebhookDelivery rows as its successCount and failCount add up to.
C40_RowsEqualCounters ==
    ActiveWebhookJobs = {} =>
        \A w \in DOMAIN webhooks :
            DeliveryRows(w, Len(webhookJobs))
                = webhooks[w].successCount + webhooks[w].failCount

\* C40 witness: no job is being processed and subscription w1 has the two
\* rows and the two counts of an attempt answered non-2xx and the row and
\* the count of an attempt answered 2xx.
C40_Witness ==
    /\ ActiveWebhookJobs = {}
    /\ webhooks["w1"].failCount = 2
    /\ webhooks["w1"].successCount = 1
    /\ DeliveryRows("w1", Len(webhookJobs)) = 3

====
